---- MODULE Spec2Model ----
(***************************************************************************)
(* Event dispatch of the telers router tree: Service::propagate_event,     *)
(* Service::propagate_update_event (router.rs) and ObserverService::trigger *)
(* (observer.rs), for one update travelling through a tree of routers      *)
(* (specification Spec), and the in-memory FSM storage (memory.rs) used by *)
(* concurrent tasks (specification StorageSpec).                           *)
(* Router::to_service_provider is BuildSpec, Service::emit_startup and     *)
(* emit_shutdown LifecycleSpec, Router::resolve_used_update_types          *)
(* ResolveSpec, and Strategy::apply (strategy.rs) StrategySpec.            *)
(*                                                                         *)
(* Every await point of the code is one step.  The callbacks supplied by   *)
(* the user (outer middlewares, filters, inner middlewares, handlers) are  *)
(* the environment: what each returns is chosen when it is called.         *)
(***************************************************************************)
EXTENDS Integers, Sequences, FiniteSets, TLC

(* ------------------------------ bounds --------------------------------- *)
\* Number of routers in the tree (router 1 is the root).
NumRouters == 4
\* Outer middlewares registered on every observer.
MaxOuter == 2
\* Largest number of handlers registered on one observer.
MaxHandlers == 2
\* Largest number of inner middlewares of one observer.
MaxInner == 1
\* Length of the chain of inner middlewares in ChainSpec.
MaxChain == 2
\* Contexts created by middlewares that are alive at the same time, besides
\* the context of the request the dispatcher built.
MaxContexts == 1

(* --------------------------- static structure -------------------------- *)
Routers == 1..NumRouters

\* Router r includes routers 2r and 2r+1 (when they exist), in that order.
sub_routers(r) == SelectSeq(<<2 * r, 2 * r + 1>>, LAMBDA c : c <= NumRouters)

\* The kind of the update being propagated, and the observers of a router
\* that take part: the kind-agnostic "update" observer and the observer
\* selected by the update type.
UpdateTypes == {"message"}
UpdateObserver == "update"
ObserverNames == {UpdateObserver} \cup UpdateTypes

EventReturn == {"Finish", "Skip", "Cancel"}

NoUnit == <<>>
Unhandled == [tag |-> "Unhandled", by |-> NoUnit]
Rejected == [tag |-> "Rejected", by |-> NoUnit]
Handled(unit) == [tag |-> "Handled", by |-> unit]
Err(unit) == [tag |-> "Err", by |-> unit]
None == [tag |-> "None", by |-> NoUnit]

\* Contexts live on a heap: a Request holds an Arc<Context>, so two requests
\* with the same ctx share one mutable bag of keys.
CtxIds == 0..MaxContexts
NoRequest == [ctx |-> -1]
NoResponse == [result |-> None, request |-> NoRequest]
NoReturn == [router |-> 0, result |-> None, request |-> NoRequest]

VARIABLES
    update_type,    \* the UpdateType passed to propagate_event
    handlers,       \* number of handlers registered on each observer
    middlewares,    \* number of inner middlewares of each observer
    stack,          \* active propagate_event calls, root first
    heap,           \* heap[c]: keys inserted into context c
    log,            \* calls made in the current observer stage, in order
    visited,        \* routers whose propagate_event was called, in call order
    trig,           \* response of the trigger call that returned last in this stage
    upd,            \* response of the propagate_update_event call that returned last
    ret,            \* response of the propagate_event call that returned last
    trace,          \* what happened earlier in the propagate_event call of the dispatcher
    storage,        \* Memory::storage: the Record of every StorageKey
    mutex,          \* tasks that hold the guard of Memory::storage
    tasks,          \* per task: the storage operation it is in, and where
    calls,          \* number of storage operations called so far
    last,           \* the storage operation that returned last, and the storage before it
    written,        \* per key: the states and values put by the operations, in the order they took effect
    config,         \* the Config passed to to_service_provider of the root router
    registered,     \* the middlewares registered on each Router before it is built
    router_tree,    \* the Router structs, as to_service_provider changes them
    building,       \* active to_service_provider calls, root first
    services,       \* the Service built from each router
    lifecycle,      \* per lifecycle event: the routers whose observer of it returns an error
    emitting,       \* the emit_startup or emit_shutdown call: where it is, what it triggered
    telegram_handlers,  \* per router: the observers with at least one handler
    used,           \* the resolve_used_update_types_with_skip call that returned last
    applied,        \* the Strategy::apply call that returned last
    fsm_middleware, \* the FSMContext middleware: its strategy, destiny and storage
    fsm_request,    \* the Request passed to FSMContext::call: bot_id and context
    fsm_response    \* FSMContext::call: where it is, the storage reads, what it returned

dispatch_vars == <<update_type, handlers, middlewares, stack, heap, log, visited, trig, upd,
                   ret, trace>>
storage_vars == <<storage, mutex, tasks, calls, last, written>>
build_vars == <<config, registered, router_tree, building, services>>
lifecycle_vars == <<lifecycle, emitting>>
resolve_vars == <<telegram_handlers, used>>
strategy_vars == <<applied>>
fsm_vars == <<fsm_middleware, fsm_request, fsm_response>>
unit_vars == <<lifecycle_vars, resolve_vars, strategy_vars, fsm_vars>>
vars == <<dispatch_vars, storage_vars, build_vars, unit_vars>>

(* ------------------------------ helpers -------------------------------- *)
Top == stack[Len(stack)]

Min(S) == CHOOSE x \in S : \A y \in S : x <= y

\* Context ids some live request still points to.
Refs(st, u, rt) ==
    {st[k].request.ctx : k \in 1..Len(st)} \cup {st[k].original.ctx : k \in 1..Len(st)}
        \cup {st[k].response.request.ctx : k \in 1..Len(st)}
        \cup {u.request.ctx, rt.request.ctx}

\* Dropping the last Arc to a context frees it.
Drop(h, st, u, rt) == [c \in CtxIds |-> IF c \in Refs(st, u, rt) THEN h[c] ELSE {}]

Fresh == Min(CtxIds \ Refs(stack, upd, ret))

SetTop(f) == [stack EXCEPT ![Len(stack)] = f]

Event(f, unit, idx, out, updated) ==
    [router |-> f.router, observer |-> f.observer, unit |-> unit, idx |-> idx,
     handler |-> IF unit \in {"inner", "handler", "result"} THEN f.i ELSE 0,
     out |-> out, by |-> NoUnit, request |-> f.request, updated |-> updated,
     keys |-> heap[f.request.ctx]]

\* The key the outer middlewares registered on the observers named o insert
\* into the context (as UserContext inserts "event_user").
Key(o) == o

\* The Result<HandlerResponse, EventErrorKind> a handler or an inner middleware
\* returned: the EventReturn of the response, or "Error" and who raised it.
NoResult == [out |-> "none", by |-> NoUnit]

Frame(r, req) ==
    [router |-> r, observer |-> UpdateObserver,
     pc |-> IF MaxOuter > 0 THEN "outer" ELSE "common",
     request |-> req, original |-> req, i |-> 1, m |-> 1, child |-> 1,
     res |-> NoResult, response |-> NoResponse]

Returning(f, result, req) ==
    [f EXCEPT !.pc = "return", !.response = [result |-> result, request |-> req]]

(* ------------------- decisions taken by the code ----------------------- *)
\* As UpdateOuterDirective, with the request of a skipped middleware kept.
UpdateOuterDirective_SkipCommits(request, updated_request, event_return) ==
    [request |-> IF event_return = "Cancel" THEN request ELSE updated_request,
     go |-> event_return # "Cancel"]

\* propagate_update_event, match on the EventReturn of an outer middleware of
\* the update observer: the request to go on with, and whether to go on.
UpdateOuterDirective(request, updated_request, event_return) ==
    CASE event_return = "Finish" -> [request |-> updated_request, go |-> TRUE]
      [] event_return = "Skip" -> [request |-> request, go |-> TRUE]
      [] event_return = "Cancel" -> [request |-> request, go |-> FALSE]

\* As OuterDirective, with Cancel taken for Skip.
OuterDirective_CancelGoes(request, updated_request, event_return) ==
    [request |-> IF event_return = "Finish" THEN updated_request ELSE request,
     go |-> TRUE]

\* propagate_event, the same match for the observer selected by update type.
OuterDirective(request, updated_request, event_return) ==
    CASE event_return = "Finish" -> [request |-> updated_request, go |-> TRUE]
      [] event_return = "Skip" -> [request |-> request, go |-> TRUE]
      [] event_return = "Cancel" -> [request |-> request, go |-> FALSE]

\* As TriggerCommon, with the result of the common filters ignored.
TriggerCommon_Ignored(pass) == None

\* trigger, on the result of common_handler.check: the result to return at
\* once, or None to go on with the handlers.
TriggerCommon(pass) == IF ~pass THEN Rejected ELSE None

\* As CalledFirst, with the last middleware of the chain called first.
CalledFirst_Last(n) ==
    IF n = 0 THEN [pc |-> "handler", m |-> 1] ELSE [pc |-> "inner", m |-> n]

\* trigger, `if self.middlewares.is_empty()`: what trigger calls for a handler
\* whose filters passed when n inner middlewares are registered, the handler
\* or middlewares[0] (counted from 1 here).
CalledFirst(n) ==
    IF n = 0 THEN [pc |-> "handler", m |-> 1] ELSE [pc |-> "inner", m |-> 1]

\* What `next` calls for middleware m of n: the first of the remaining
\* middlewares, or the handler when none remains.
CalledNext(m, n) ==
    IF m < n THEN [pc |-> "inner", m |-> m + 1] ELSE [pc |-> "handler", m |-> 1]

\* The frame after a handler or an inner middleware returned `out`: the
\* result goes to the one that awaits it, inner middleware m, whose `next`
\* made the call, or trigger (m = 0), which awaits middlewares[0].call, or
\* handler.call when no middleware is registered.
Returned(f, m, out, unit) ==
    [f EXCEPT !.pc = IF m >= 1 THEN "after" ELSE "match",
              !.m = IF m >= 1 THEN m ELSE 1,
              !.res = [out |-> out, by |-> IF out = "Error" THEN unit ELSE NoUnit]]

\* As TriggerSignal, with Finish taken for Skip.
TriggerSignal_FinishContinues(handler_response, unit) ==
    IF handler_response \in {"Skip", "Finish"} THEN None ELSE Rejected

\* As TriggerSignal, with Cancel taken for Skip.
TriggerSignal_CancelContinues(handler_response, unit) ==
    IF handler_response \in {"Skip", "Cancel"} THEN None ELSE Handled(unit)

\* As TriggerSignal, without the is_cancel branch.
TriggerSignal_CancelHandled(handler_response, unit) ==
    IF handler_response = "Skip" THEN None ELSE Handled(unit)

\* trigger, on the response of an executed handler: None means `continue`
\* with the next handler, otherwise the result trigger returns.
TriggerSignal(handler_response, unit) ==
    IF handler_response = "Skip" THEN None
    ELSE IF handler_response = "Cancel" THEN Rejected
    ELSE Handled(unit)

\* As UpdateObserverResult, with the rejection of the update observer passed on.
UpdateObserverResult_RejectedKept(result) ==
    IF result.tag = "Unhandled" THEN Unhandled ELSE result

\* As KindRequest, with the request left by the update stage carried over.
KindRequest_Committed(request, update_request) == update_request

\* propagate_event, `request: _` and `let mut request = request`: the request
\* the stage of the observer selected by the update type starts with, given
\* the request passed to propagate_event and the one the update stage left.
KindRequest(request, update_request) == request

\* propagate_update_event, match on the result of update.trigger.
UpdateObserverResult(result) ==
    CASE result.tag = "Unhandled" -> Unhandled
      [] result.tag = "Handled" -> result
      [] result.tag = "Rejected" -> Unhandled

\* As UpdateEventResult, going on after the update observer handled the event.
UpdateEventResult_IgnoresHandled(result) ==
    IF result.tag = "Rejected" THEN Rejected ELSE None

\* propagate_event, match on the response of propagate_update_event: the
\* result to return at once, or None to go on with the router's observer.
UpdateEventResult(result) ==
    CASE result.tag = "Handled" -> result
      [] result.tag = "Rejected" -> Rejected
      [] result.tag = "Unhandled" -> None

\* As ObserverResult, going on with the sub routers after a rejection.
ObserverResult_RejectedGoesOn(result) ==
    IF result.tag = "Handled" THEN result ELSE None

\* As ObserverResult, with the rejection of the observer passed on.
ObserverResult_RejectedKept(result) ==
    IF result.tag = "Unhandled" THEN None ELSE result

\* propagate_event, match on the result of observer.trigger: the result to
\* return, or None to go on with the sub routers.
ObserverResult(result) ==
    CASE result.tag = "Unhandled" -> None
      [] result.tag = "Handled" -> result
      [] result.tag = "Rejected" -> Unhandled

\* As SubRouterResult, going on after a sub router rejected the event.
SubRouterResult_RejectedContinues(result) ==
    IF result.tag = "Handled" THEN result ELSE None

\* propagate_event, match on the result of a sub router: None means
\* `continue` with the next sub router, otherwise its response is returned.
SubRouterResult(result) ==
    CASE result.tag = "Unhandled" -> None
      [] result.tag = "Handled" -> result
      [] result.tag = "Rejected" -> result

(* ------------------------ FSM storage (memory.rs) ---------------------- *)
\* Tasks that call the storage concurrently.
NumTasks == 2
\* Storage operations called in one run.
MaxCalls == 3

Tasks == 1..NumTasks

DEFAULT_DESTINY == "default"

\* StorageKey: the ids of the bot, the chat and the user, the optional ids of
\* the thread and of the business connection, and the destiny.
StorageKey(bot_id, chat_id, user_id, message_thread_id, business_connection_id, destiny) ==
    [bot_id |-> bot_id, chat_id |-> chat_id, user_id |-> user_id,
     message_thread_id |-> message_thread_id,
     business_connection_id |-> business_connection_id,
     destiny |-> destiny]

\* StorageKey::new: the key with the default destiny.
StorageKey_new(bot_id, chat_id, user_id, message_thread_id, business_connection_id) ==
    StorageKey(bot_id, chat_id, user_id, message_thread_id, business_connection_id,
               DEFAULT_DESTINY)

\* The keys of the storage tests: StorageKey::new(0, 1, 2, None, None) and
\* StorageKey::new(2, 1, 0, None, None).
StorageKeys ==
    {StorageKey_new(0, 1, 2, <<>>, <<>>), StorageKey_new(2, 1, 0, <<>>, <<>>)}

\* The first key of the tests next to a key that differs from it in one
\* field only, for each of the six fields.
OneFieldKeys ==
    LET key1 == StorageKey_new(0, 1, 2, <<>>, <<>>)
    IN {{key1, k} : k \in {[key1 EXCEPT !.bot_id = 2],
                            [key1 EXCEPT !.chat_id = 0],
                            [key1 EXCEPT !.user_id = 0],
                            [key1 EXCEPT !.message_thread_id = <<7>>],
                            [key1 EXCEPT !.business_connection_id = <<"connection">>],
                            [key1 EXCEPT !.destiny = "custom"]}}

\* Equality of two StorageKey values, as the HashMap of the storage uses it:
\* every field is compared.
KeyEq(a, b) ==
    /\ a.bot_id = b.bot_id
    /\ a.chat_id = b.chat_id
    /\ a.user_id = b.user_id
    /\ a.message_thread_id = b.message_thread_id
    /\ a.business_connection_id = b.business_connection_id
    /\ a.destiny = b.destiny

States == {"state1", "state2"}
Fields == {"key1", "key2"}

\* Values a caller stores: a struct whose only field is an absent option that
\* is skipped when serializing, a float that is not a number, and a map whose
\* keys are not strings.
Values ==
    {[ty |-> "AOptionSkip", v |-> "a: None"],
     [ty |-> "f64", v |-> "NaN"],
     [ty |-> "map", v |-> "key not a string"]}
NoValue == [ty |-> "none", v |-> ""]
NoText == ""

\* serde_json::to_string: the JSON text of a value, or an error.
to_string(value) ==
    CASE value = [ty |-> "AOptionSkip", v |-> "a: None"] -> [ok |-> TRUE, text |-> "{}"]
      [] value = [ty |-> "f64", v |-> "NaN"] -> [ok |-> TRUE, text |-> "null"]
      [] OTHER -> [ok |-> FALSE, text |-> NoText]

\* serde_json::from_str::<ty>: the value of type ty a JSON text stands for, or
\* an error.  The text "{}" is the struct whose option is absent, and it is
\* the empty map as well.
from_str(ty, text) ==
    CASE ty = "AOptionSkip" /\ text = "{}"
            -> [ok |-> TRUE, value |-> [ty |-> "AOptionSkip", v |-> "a: None"]]
      [] ty = "map" /\ text = "{}"
            -> [ok |-> TRUE, value |-> [ty |-> "map", v |-> "empty"]]
      [] OTHER -> [ok |-> FALSE, value |-> NoValue]

\* Record: the states stack and the data map (field -> JSON text) of a key.
\* `present` tells whether the HashMap has an entry for the key.
EmptyData == [f \in Fields |-> NoText]
NoRecord == [present |-> FALSE, states |-> <<>>, data |-> EmptyData]
Record(states, data) == [present |-> TRUE, states |-> states, data |-> data]

\* HashMap::entry(key): the stored key equal to `key`, if there is one.
\* As Slot, with the keys told apart by the ids of the bot, the chat and the
\* user only.
Slot_ByIds(store, key) ==
    IF \E k \in DOMAIN store : store[k].present /\ k.bot_id = key.bot_id
                                  /\ k.chat_id = key.chat_id /\ k.user_id = key.user_id
    THEN CHOOSE k \in DOMAIN store : store[k].present /\ k.bot_id = key.bot_id
                                      /\ k.chat_id = key.chat_id /\ k.user_id = key.user_id
    ELSE key

Slot(store, key) ==
    IF \E k \in DOMAIN store : store[k].present /\ KeyEq(k, key)
    THEN CHOOSE k \in DOMAIN store : store[k].present /\ KeyEq(k, key)
    ELSE key
entry(store, key) == IF store[Slot(store, key)].present THEN "Occupied" ELSE "Vacant"

\* The maps passed to set_data: an empty one, one with a value, and one with
\* a value that serializes and one that does not.
NoData == [f \in Fields |-> NoValue]
DataMaps ==
    {NoData,
     [NoData EXCEPT !["key2"] = [ty |-> "AOptionSkip", v |-> "a: None"]],
     [key1 |-> [ty |-> "AOptionSkip", v |-> "a: None"],
      key2 |-> [ty |-> "map", v |-> "key not a string"]]}

\* set_data, `for (value_key, value) in data`: every value serialized.
Serialized(data) ==
    [ok |-> \A f \in Fields : data[f] # NoValue => to_string(data[f]).ok,
     data |-> [f \in Fields |-> IF data[f] = NoValue THEN NoText
                                ELSE to_string(data[f]).text]]
len(data) == Cardinality({f \in Fields : data[f] # NoValue})

Ok(store) == [store |-> store, result |-> "Ok"]
Error(store) == [store |-> store, result |-> "Err"]

\* Mutex::lock: the guard is granted when no task holds it.
lock_Unguarded(holders) == TRUE

lock(holders) == holders = {}

\* Memory::set_state, after the match on entry(key) took branch e.
set_state(store, e, key, state) ==
    IF e = "Occupied"
    THEN Ok([store EXCEPT ![Slot(store, key)].states = Append(@, state)])
    ELSE Ok([store EXCEPT ![key] = Record(<<state>>, EmptyData)])

\* As set_previous_state, dropping the whole stack.
set_previous_state_DropsAll(store, e, key) ==
    IF e = "Occupied"
    THEN Ok([store EXCEPT ![Slot(store, key)].states = <<>>])
    ELSE Ok(store)

\* Memory::set_previous_state: Vec::pop, which does nothing on an empty Vec.
set_previous_state(store, e, key) ==
    IF e = "Occupied"
    THEN Ok([store EXCEPT ![Slot(store, key)].states =
                IF @ = <<>> THEN <<>> ELSE SubSeq(@, 1, Len(@) - 1)])
    ELSE Ok(store)

\* As remove_states, replacing the Record by a default one.
remove_states_ResetsRecord(store, e, key) ==
    IF e = "Occupied"
    THEN Ok([store EXCEPT ![Slot(store, key)] = Record(<<>>, EmptyData)])
    ELSE Ok(store)

\* Memory::remove_states.
remove_states(store, e, key) ==
    IF e = "Occupied"
    THEN Ok([store EXCEPT ![Slot(store, key)].states = <<>>])
    ELSE Ok(store)

\* As set_data, with every serialized value put into the stored map at once,
\* before the next one is serialized.
set_data_InPlace(store, e, key, data) ==
    LET new_data == Serialized(data)
        k == Slot(store, key)
    IN IF len(data) = 0 THEN Ok([store EXCEPT ![k] = Record(store[k].states, EmptyData)])
       ELSE IF new_data.ok
            THEN Ok([store EXCEPT ![k] = Record(store[k].states, new_data.data)])
            ELSE Error([store EXCEPT ![k] = Record(store[k].states, new_data.data)])

\* As set_data, extending the stored map instead of replacing it.
set_data_Extends(store, e, key, data) ==
    LET new_data == Serialized(data)
        k == Slot(store, key)
    IN IF ~new_data.ok THEN Error(store)
       ELSE Ok([store EXCEPT ![k] =
                    Record(store[k].states,
                           [f \in Fields |-> IF new_data.data[f] # NoText
                                             THEN new_data.data[f]
                                             ELSE store[k].data[f]])])

\* Memory::set_data.
set_data(store, e, key, data) ==
    LET new_data == Serialized(data)
    IN IF e = "Occupied"
       THEN IF len(data) = 0
            THEN Ok([store EXCEPT ![Slot(store, key)].data = EmptyData])
            ELSE IF ~new_data.ok THEN Error(store)
                 ELSE Ok([store EXCEPT ![Slot(store, key)].data = new_data.data])
       ELSE IF len(data) = 0
            THEN Ok([store EXCEPT ![key] = Record(<<>>, EmptyData)])
            ELSE IF ~new_data.ok THEN Error(store)
                 ELSE Ok([store EXCEPT ![key] = Record(<<>>, new_data.data)])

\* Memory::set_value.
set_value(store, e, key, value_key, value) ==
    LET text == to_string(value)
    IN IF ~text.ok THEN Error(store)
       ELSE IF e = "Occupied"
            THEN Ok([store EXCEPT ![Slot(store, key)].data[value_key] = text.text])
            ELSE Ok([store EXCEPT ![key] =
                        Record(<<>>, [EmptyData EXCEPT ![value_key] = text.text])])

\* Memory::remove_data.
remove_data(store, e, key) ==
    IF e = "Occupied"
    THEN Ok([store EXCEPT ![Slot(store, key)].data = EmptyData])
    ELSE Ok(store)

\* Memory::get_state: the top of the stack, or none.
get_state(store, key) ==
    LET record == store[Slot(store, key)]
    IN IF record.present /\ record.states # <<>>
       THEN <<record.states[Len(record.states)]>> ELSE <<>>

\* Memory::get_states.
get_states(store, key) ==
    LET record == store[Slot(store, key)]
    IN IF record.present THEN record.states ELSE <<>>

\* Memory::get_value::<ty>: Ok(Some(value)), Ok(None) or an error.
get_value(store, key, value_key, ty) ==
    LET record == store[Slot(store, key)]
    IN IF record.present /\ record.data[value_key] # NoText
       THEN IF from_str(ty, record.data[value_key]).ok
            THEN [result |-> "Ok", value |-> from_str(ty, record.data[value_key]).value]
            ELSE [result |-> "Err", value |-> NoValue]
       ELSE [result |-> "Ok", value |-> NoValue]

\* Memory::get_data::<ty>: the fields and their values, or an error.
get_data(store, key, ty) ==
    LET record == store[Slot(store, key)]
        has == {f \in Fields : record.present /\ record.data[f] # NoText}
    IN IF \A f \in has : from_str(ty, record.data[f]).ok
       THEN [result |-> "Ok",
             data |-> [f \in Fields |-> IF f \in has
                                        THEN from_str(ty, record.data[f]).value
                                        ELSE NoValue]]
       ELSE [result |-> "Err", data |-> NoData]

\* The storage operations a task may call.
NoCall == [name |-> "none", key |-> CHOOSE k \in StorageKeys : TRUE, state |-> "",
           value_key |-> "", value |-> NoValue, data |-> NoData]
Call(name, key) == [NoCall EXCEPT !.name = name, !.key = key]
StorageCalls(keys) ==
    {[Call("set_state", k) EXCEPT !.state = st] : k \in keys, st \in States}
    \cup {Call(n, k) : n \in {"set_previous_state", "remove_states", "remove_data"},
                       k \in keys}
    \cup {[Call("set_data", k) EXCEPT !.data = d] : k \in keys, d \in DataMaps}
    \cup {[Call("set_value", k) EXCEPT !.value_key = f, !.value = v] :
            k \in keys, f \in Fields, v \in Values}

\* Every operation once, on each of the keys, with values that serialize.
KeyCalls(keys) ==
    {[Call("set_state", k) EXCEPT !.state = "state1"] : k \in keys}
    \cup {Call(n, k) : n \in {"set_previous_state", "remove_states", "remove_data"},
                       k \in keys}
    \cup {[Call("set_data", k) EXCEPT
              !.data = [NoData EXCEPT !["key2"] = [ty |-> "AOptionSkip", v |-> "a: None"]]] :
            k \in keys}
    \cup {[Call("set_value", k) EXCEPT
              !.value_key = "key1", !.value = [ty |-> "AOptionSkip", v |-> "a: None"]] :
            k \in keys}

\* The calls made on a storage: all of them on the keys of the tests, every
\* operation once on other keys.
CallsOn(keys) == IF keys = StorageKeys THEN StorageCalls(keys) ELSE KeyCalls(keys)

\* The body of operation c, after the match on entry(key) took branch e.
Apply(store, e, c) ==
    CASE c.name = "set_state" -> set_state(store, e, c.key, c.state)
      [] c.name = "set_previous_state" -> set_previous_state(store, e, c.key)
      [] c.name = "remove_states" -> remove_states(store, e, c.key)
      [] c.name = "set_data" -> set_data(store, e, c.key, c.data)
      [] c.name = "set_value" -> set_value(store, e, c.key, c.value_key, c.value)
      [] c.name = "remove_data" -> remove_data(store, e, c.key)

\* What the operations that took effect put under each key: the states pushed
\* and not popped or cleared, and the values of the fields.
NoWrites == [states |-> <<>>, data |-> NoData]
Effect(w, c, result) ==
    IF result = "Err" THEN w
    ELSE CASE c.name = "set_state" -> [w EXCEPT ![c.key].states = Append(@, c.state)]
           [] c.name = "set_previous_state"
                -> [w EXCEPT ![c.key].states =
                        IF @ = <<>> THEN <<>> ELSE SubSeq(@, 1, Len(@) - 1)]
           [] c.name = "remove_states" -> [w EXCEPT ![c.key].states = <<>>]
           [] c.name = "set_data" -> [w EXCEPT ![c.key].data = c.data]
           [] c.name = "set_value" -> [w EXCEPT ![c.key].data[c.value_key] = c.value]
           [] c.name = "remove_data" -> [w EXCEPT ![c.key].data = NoData]

Idle == [pc |-> "idle", call |-> NoCall, entry |-> ""]
\* `overlapped`: some operation returned while another one had been called and
\* had not returned yet.
NoLast == [call |-> NoCall, result |-> "", before |-> [k \in StorageKeys |-> NoRecord],
           overlapped |-> FALSE]

\* Memory::default(), for callers that use the keys `keys`: an empty HashMap,
\* nobody holding the guard.
MemoryNew(keys) ==
    /\ storage = [k \in keys |-> NoRecord]
    /\ mutex = {}
    /\ tasks = [t \in Tasks |-> Idle]
    /\ calls = 0
    /\ last = [NoLast EXCEPT !.before = [k \in keys |-> NoRecord]]
    /\ written = [k \in keys |-> NoWrites]

StorageNew == MemoryNew(StorageKeys)

(* -------------------- Router::to_service_provider ---------------------- *)
\* Largest number of middlewares of one kind a Config holds for one observer.
MaxConfig == 1

\* Middlewares are told apart by who registered them (router 0 is the Config),
\* on which observer, as which kind, and in which position.
Middleware(r, o, kind, j) == <<r, o, kind, j>>
Registered(r, o, kind, n) == [j \in 1..n |-> Middleware(r, o, kind, j)]

NoMiddlewares == [o \in ObserverNames |-> [inner_middlewares |-> <<>>, outer_middlewares |-> <<>>]]
NoService == [built |-> FALSE, observers |-> NoMiddlewares]

\* Manager::register_at_position: the middleware is inserted at the index
\* (counted from 0) and the ones from there on move up.
register_at_position(list, index, middleware) ==
    SubSeq(list, 1, index) \o <<middleware>> \o SubSeq(list, index + 1, Len(list))

\* `for middleware in from { to.register_at_position(index, middleware); index += 1 }`
RECURSIVE RegisterEach(_, _, _)
RegisterEach(to, from, index) ==
    IF index >= Len(from) THEN to
    ELSE RegisterEach(register_at_position(to, index, from[index + 1]), from, index + 1)

\* As register_inner_middlewares_to_sub_routers, with the middlewares of the
\* parent registered after those of the sub router.
register_inner_middlewares_to_sub_routers_Appends(parent, sub_router) ==
    [o \in ObserverNames |->
        [sub_router[o] EXCEPT !.inner_middlewares = @ \o parent[o].inner_middlewares]]

\* to_service_provider, register_inner_middlewares_to_sub_routers!: what one
\* sub router holds after the inner middlewares of `parent` were registered
\* to it, observer by observer.
register_inner_middlewares_to_sub_routers(parent, sub_router) ==
    [o \in ObserverNames |->
        [sub_router[o] EXCEPT
            !.inner_middlewares = RegisterEach(@, parent[o].inner_middlewares, 0)]]

\* to_service_provider, register_middlewares_from_config!: what the router
\* holds after the middlewares of the Config were registered to it.
register_middlewares_from_config(router, cfg) ==
    [o \in ObserverNames |->
        [inner_middlewares |-> RegisterEach(router[o].inner_middlewares, cfg.inner_middlewares[o], 0),
         outer_middlewares |-> RegisterEach(router[o].outer_middlewares, cfg.outer_middlewares[o], 0)]]

NoConfig == [inner_middlewares |-> [o \in ObserverNames |-> <<>>],
             outer_middlewares |-> [o \in ObserverNames |-> <<>>]]

\* As SubRouterConfig, with the outer middlewares of the Config kept.
SubRouterConfig_KeepsOuter(cfg) == cfg

\* to_service_provider, `config.outer_middlewares = OuterMiddlewaresConfig::new()`:
\* the Config the sub routers are built with.
SubRouterConfig(cfg) == [cfg EXCEPT !.outer_middlewares = NoConfig.outer_middlewares]

\* No router registered anything and nothing is being built.
RoutersNew ==
    /\ config = NoConfig
    /\ registered = [r \in Routers |-> NoMiddlewares]
    /\ router_tree = [r \in Routers |-> NoMiddlewares]
    /\ building = <<>>
    /\ services = [r \in Routers |-> NoService]

(* ------------------- emit_startup and emit_shutdown ------------------- *)
SimpleObserverNames == {"startup", "shutdown"}
NotEmitting == [pc |-> "idle", event |-> "none", index |-> 0, triggered |-> <<>>, result |-> "none"]

\* once(&self.startup).chain(self.sub_routers.iter().map(|router| &router.startup)):
\* the routers whose observer the loop of emit_startup on router r goes through.
LifecycleObservers(r) == <<r>> \o sub_routers(r)

\* No startup or shutdown handler returns an error; nothing was emitted.
NoEmit ==
    /\ lifecycle = [e \in SimpleObserverNames |-> {}]
    /\ emitting = NotEmitting

(* -------------------- resolve_used_update_types ----------------------- *)
\* Observers with handlers in the whole tree, at most.
MaxRegistered == 3

\* The UpdateTypes the routers may hold handlers for, and the observers of a
\* router that telegram_observers() lists.
UsedUpdateTypes == {"message", "edited_message"}
telegram_observers == UsedUpdateTypes \cup {UpdateObserver}

\* Option<UpdateType> of a TelegramObserverName: None for the update observer.
NoUpdateType == "None"
into(event_name) == IF event_name = UpdateObserver THEN NoUpdateType ELSE event_name

RECURSIVE resolve_used_update_types_with_skip(_, _, _)

\* The loop over the observers of one router; with_handlers are the
\* observers whose handlers() is not empty.
ObserversUsed_KeepsSkipped(with_handlers, skip_update_types) ==
    {into(observer) : observer \in
        {o \in telegram_observers : o \in with_handlers /\ into(o) # NoUpdateType}}
ObserversUsed(with_handlers, skip_update_types) ==
    {into(observer) : observer \in
        {o \in telegram_observers :
            /\ o \in with_handlers
            /\ into(o) # NoUpdateType
            /\ into(o) \notin skip_update_types}}

resolve_used_update_types_with_skip(routers, self, skip_update_types) ==
    ObserversUsed(routers[self], skip_update_types)
        \cup UNION {resolve_used_update_types_with_skip(routers, sub_routers(self)[j],
                                                        skip_update_types) :
                        j \in 1..Len(sub_routers(self))}

resolve_used_update_types(routers, self) ==
    resolve_used_update_types_with_skip(routers, self, {})

NoUsed == [fn |-> "none", router |-> 0, skip |-> {}, result |-> {}]
NoResolve ==
    /\ telegram_handlers = [r \in Routers |-> {}]
    /\ used = NoUsed

(* --------------------------- Strategy::apply --------------------------- *)
Strategy == {"UserInChat", "Chat", "GlobalUser", "UserInThread", "ChatThread",
             "UserInChatAndConnection", "ChatAndConnection", "GlobalUserAndConnection",
             "UserInThreadAndConnection", "ChatThreadAndConnection"}
Strategy_default == "UserInChat"

\* Arguments of the calls: two ids, and the Option arguments, None or Some.
Ids == {10, 20}
NoId == <<>>
ThreadIds == {NoId, <<7>>}
ConnectionIds == {NoId, <<"connection">>}

IdPair(chat_id, user_id, message_thread_id, business_connection_id) ==
    [chat_id |-> chat_id, user_id |-> user_id,
     message_thread_id |-> message_thread_id,
     business_connection_id |-> business_connection_id]

apply_ChatKeepsUser(self, chat_id, user_id, message_thread_id, business_connection_id) ==
    IdPair(chat_id, user_id, NoId, NoId)
apply(self, chat_id, user_id, message_thread_id, business_connection_id) ==
    CASE self = "UserInChat" -> IdPair(chat_id, user_id, NoId, NoId)
      [] self = "UserInChatAndConnection" ->
            IdPair(chat_id, user_id, NoId, business_connection_id)
      [] self = "Chat" -> IdPair(chat_id, chat_id, NoId, NoId)
      [] self = "ChatAndConnection" ->
            IdPair(chat_id, chat_id, NoId, business_connection_id)
      [] self = "GlobalUser" -> IdPair(user_id, user_id, NoId, NoId)
      [] self = "GlobalUserAndConnection" ->
            IdPair(user_id, user_id, NoId, business_connection_id)
      [] self = "UserInThread" -> IdPair(chat_id, user_id, message_thread_id, NoId)
      [] self = "UserInThreadAndConnection" ->
            IdPair(chat_id, user_id, message_thread_id, business_connection_id)
      [] self = "ChatThread" -> IdPair(chat_id, chat_id, message_thread_id, NoId)
      [] self = "ChatThreadAndConnection" ->
            IdPair(chat_id, chat_id, message_thread_id, business_connection_id)

NoApplied == [strategy |-> "none", by_default |-> FALSE, chat_id |-> 0, user_id |-> 0,
              message_thread_id |-> NoId, business_connection_id |-> NoId,
              result |-> IdPair(0, 0, NoId, NoId)]
NoApply == applied = NoApplied

(* ---------------------- FSMContext (fsm_context.rs) -------------------- *)
BotId == 1

\* EventReturn::default().
EventReturn_default == "Finish"

\* The keys of the request context the middleware reads and inserts.
EventKeys == {"event_user", "event_chat", "event_message_thread_id",
              "event_business_connection_id"}
FSMKeys == {"fsm_state", "fsm_context", "fsm_storage"}
ContextKeys == EventKeys \cup FSMKeys

\* The destinies a middleware is built with: the one FSMContext::new gives,
\* and one set with FSMContext::destiny.
Destinies == {DEFAULT_DESTINY, "custom"}

\* The keys the storage of the middleware may hold a state for.
FSMStorageKeys ==
    {StorageKey(BotId, c, u, t, b, d) :
        c \in Ids, u \in Ids, t \in ThreadIds, b \in ConnectionIds, d \in Destinies}

\* FSMContext::get_context: the fsm Context of the storage and the key.
get_context(self, bot_id, chat_id, user_id, message_thread_id, business_connection_id) ==
    StorageKey(bot_id, chat_id, user_id, message_thread_id, business_connection_id,
               self.destiny)

\* Option::unwrap_or.
unwrap_or(option, default) == IF option = <<>> THEN default ELSE option[1]

\* FSMContext::resolve_context: None without a user.
resolve_context_NeedsChat(self, bot_id, chat_id, user_id, message_thread_id, business_connection_id) ==
    IF user_id = <<>> \/ chat_id = <<>> THEN <<>>
    ELSE <<get_context(self, bot_id, chat_id[1], user_id[1], NoId, NoId)>>
resolve_context(self, bot_id, chat_id, user_id, message_thread_id, business_connection_id) ==
    IF user_id = <<>> THEN <<>>
    ELSE LET id_pair == apply(self.strategy, unwrap_or(chat_id, user_id[1]), user_id[1],
                              message_thread_id, business_connection_id)
         IN <<get_context(self, bot_id, id_pair.chat_id, id_pair.user_id,
                          id_pair.message_thread_id, id_pair.business_connection_id)>>

\* FSMContext::resolve_event_context: the ids are read from the context.
resolve_event_context(self, bot_id, context) ==
    resolve_context(self, bot_id, context["event_chat"], context["event_user"],
                    context["event_message_thread_id"],
                    context["event_business_connection_id"])

\* fsm_context.get_state(): the current state the storage holds for the key
\* of the context, Ok(None) if it holds none, or the error of a storage that
\* cannot be read.
Context_get_state(fsm_storage, fsm_context) ==
    IF fsm_storage.fails THEN [ok |-> FALSE, state |-> <<>>]
    ELSE [ok |-> TRUE,
          state |-> IF fsm_context \in DOMAIN fsm_storage.states
                    THEN fsm_storage.states[fsm_context] ELSE <<>>]

\* Context::insert.
insert(context, key, value) == [context EXCEPT ![key] = <<value>>]

NoContext == [k \in ContextKeys |-> <<>>]
NotCalled == [pc |-> "idle", fsm_context |-> <<>>, reads |-> <<>>,
              event_return |-> "none", error |-> FALSE]

\* No middleware call: a middleware over an empty storage, an empty context.
NoFSM ==
    /\ fsm_middleware = [strategy |-> Strategy_default, destiny |-> DEFAULT_DESTINY,
                         storage |-> [states |-> [k \in {} |-> <<>>], fails |-> FALSE]]
    /\ fsm_request = [bot_id |-> BotId, context |-> NoContext]
    /\ fsm_response = NotCalled

(* ------------------------------ state ---------------------------------- *)
\* The history of a propagate_event call of the dispatcher, when one is kept.
\* Of the signals of the executions: `signalled`, the signals other than Skip
\* that trigger got from the execution of a handler (from the handler, or from
\* the chain of inner middlewares around it); `after`, the signals that had
\* been given when some handler was executed.  Of the requests: `committed` and `replaced`,
\* whether an outer middleware of the update observer of the router called
\* last returned Finish after it inserted its key into the context of the
\* request it was called with, or together with a request of its own.
NoTrace == [of |-> "nothing", signalled |-> {}, after |-> {},
            committed |-> FALSE, replaced |-> FALSE]
Traced(of, t) == IF trace.of = of THEN t ELSE trace

\* No propagate_event call was made yet.
NotPropagating ==
    /\ stack = <<>>
    /\ heap = [c \in CtxIds |-> {}]
    /\ log = <<>>
    /\ visited = <<>>
    /\ trig = NoResponse
    /\ upd = NoResponse
    /\ ret = NoReturn

\* The observers hold no handler, one handler or MaxHandlers handlers each,
\* with no inner middleware or with MaxInner inner middlewares.
DispatchNew ==
    /\ update_type \in UpdateTypes
    /\ handlers \in {0, 1, MaxHandlers}
    /\ middlewares \in {0, MaxInner}
    /\ NotPropagating
    /\ trace = NoTrace

Init == DispatchNew /\ StorageNew /\ RoutersNew /\ NoEmit /\ NoResolve /\ NoApply /\ NoFSM

Built == UNCHANGED <<update_type, handlers, middlewares, storage_vars, build_vars, unit_vars>>

\* As NextHandler, with the loop leaving out the last handler.
NextHandler_SkipsLast(f, k) ==
    IF k < handlers
    THEN [frame |-> [f EXCEPT !.pc = "check", !.i = k, !.m = 1], trig |-> NoResponse]
    ELSE [frame |-> [f EXCEPT !.pc = "triggered", !.i = 1, !.m = 1],
          trig |-> [result |-> Unhandled, request |-> f.request]]

\* The frame after `for handler in self.handlers.iter()` moves to handler k:
\* check it, or leave the loop and return Unhandled.
NextHandler(f, k) ==
    IF k <= handlers
    THEN [frame |-> [f EXCEPT !.pc = "check", !.i = k, !.m = 1], trig |-> NoResponse]
    ELSE [frame |-> [f EXCEPT !.pc = "triggered", !.i = 1, !.m = 1],
          trig |-> [result |-> Unhandled, request |-> f.request]]

\* One step of the call on top of the stack: its frame becomes f, the heap h.
Step(f, h, t, u) ==
    /\ stack' = SetTop(f)
    /\ trig' = t
    /\ upd' = u
    /\ heap' = Drop(h, SetTop(f), u, ret)
    /\ UNCHANGED <<visited, ret>>
    /\ Built

(* ------------------------------ actions -------------------------------- *)
\* The dispatcher calls propagate_event of the root router with a new request.
PropagateEvent ==
    /\ stack = <<>>
    /\ visited = <<>>
    /\ stack' = <<Frame(1, [ctx |-> 0])>>
    /\ visited' = <<1>>
    /\ UNCHANGED <<heap, log, trig, upd, ret, trace>>
    /\ Built

\* propagate_event, `for router in &*self.sub_routers`: call propagate_event
\* of the next sub router with a clone of the request.
PropagateToSubRouter ==
    /\ stack # <<>>
    /\ Top.pc = "sub_routers"
    /\ LET f == Top
           r == sub_routers(f.router)[f.child]
           st == Append(SetTop([f EXCEPT !.pc = "await"]), Frame(r, f.request))
       IN /\ stack' = st
          /\ visited' = Append(visited, r)
          /\ log' = <<>>
          /\ trig' = NoResponse
          /\ upd' = NoResponse
          /\ ret' = NoReturn
          /\ heap' = Drop(heap, st, NoResponse, NoReturn)
    /\ trace' = Traced("requests", [trace EXCEPT !.committed = FALSE, !.replaced = FALSE])
    /\ Built

\* One outer middleware is called with a clone of the request.  It either
\* inserts its key into the context it was given and returns the request it
\* got, or leaves that context alone and returns a request with a context of
\* its own that holds the key too; with the request it returns an EventReturn.
\* It may also insert its key and then fail.  (With Cancel the request it
\* returns is dropped at once, so only the first way is drawn.)
OuterMiddleware ==
    /\ stack # <<>>
    /\ Top.pc = "outer"
    /\ \E event_return \in EventReturn \cup {"Error"},
          replace \in {b \in BOOLEAN : b => CtxIds \ Refs(stack, upd, ret) # {}} :
        LET f == Top
            unit == <<f.router, f.observer, "outer", f.i>>
            inserted == [heap EXCEPT ![f.request.ctx] = @ \cup {Key(f.observer)}]
            updated == IF replace THEN [ctx |-> Fresh] ELSE f.request
            h == IF replace
                 THEN [heap EXCEPT ![updated.ctx] = heap[f.request.ctx] \cup {Key(f.observer)}]
                 ELSE inserted
            d == IF f.observer = UpdateObserver
                 THEN UpdateOuterDirective(f.request, updated, event_return)
                 ELSE OuterDirective(f.request, updated, event_return)
            response == [result |-> Rejected, request |-> d.request]
        IN /\ trace' = Traced("requests",
                              IF f.observer = UpdateObserver /\ event_return = "Finish"
                              THEN [trace EXCEPT !.committed = @ \/ ~replace,
                                                 !.replaced = @ \/ replace]
                              ELSE trace)
           /\ IF event_return = "Error"
              THEN /\ ~replace
                   /\ log' = Append(log, Event(f, "outer", f.i, event_return, NoRequest))
                   /\ Step(Returning(f, Err(unit), NoRequest), inserted, trig, upd)
              ELSE /\ event_return = "Cancel" => ~replace
                   /\ log' = Append(log, Event(f, "outer", f.i, event_return, updated))
                   /\ IF d.go
                      THEN Step([f EXCEPT !.request = d.request,
                                          !.i = IF f.i < MaxOuter THEN f.i + 1 ELSE 1,
                                          !.pc = IF f.i < MaxOuter THEN "outer" ELSE "common"],
                                h, trig, upd)
                      ELSE IF f.observer = UpdateObserver
                           THEN Step([f EXCEPT !.pc = "updated", !.i = 1], h, trig, response)
                           ELSE Step(Returning([f EXCEPT !.i = 1], Rejected, d.request),
                                     h, trig, upd)

\* trigger: the filters of the common handler are checked.  The log starts
\* again with the calls of this trigger.
CommonFilters ==
    /\ stack # <<>>
    /\ Top.pc = "common"
    /\ \E pass \in BOOLEAN :
        LET f == Top
            n == NextHandler(f, 1)
        IN /\ log' = <<Event(f, "common", 0, IF pass THEN "pass" ELSE "fail", NoRequest)>>
           /\ UNCHANGED trace
           /\ IF TriggerCommon(pass) # None
              THEN Step([f EXCEPT !.pc = "triggered"], heap,
                        [result |-> TriggerCommon(pass), request |-> f.request], upd)
              ELSE Step(n.frame, heap, n.trig, upd)

\* trigger: the filters of handler i are checked; on failure `continue`.
HandlerFilters ==
    /\ stack # <<>>
    /\ Top.pc = "check"
    /\ \E pass \in BOOLEAN :
        LET f == Top
            n == NextHandler(f, f.i + 1)
        IN /\ log' = Append(log, Event(f, "check", f.i,
                                       IF pass THEN "pass" ELSE "fail", NoRequest))
           /\ UNCHANGED trace
           /\ IF ~pass
              THEN Step(n.frame, heap, n.trig, upd)
              ELSE Step([f EXCEPT !.pc = CalledFirst(middlewares).pc,
                                  !.m = CalledFirst(middlewares).m],
                        heap, trig, upd)

\* As Executed, with an error taken for Skip.
Executed_ErrorSkips(f, unit, out) ==
    LET t == TriggerSignal(out, <<f.router, f.observer, "handler", f.i>>)
        n == NextHandler(f, f.i + 1)
    IN IF out = "Error" \/ t = None
       THEN Step(n.frame, heap, n.trig, upd)
       ELSE Step([f EXCEPT !.pc = "triggered", !.i = 1, !.m = 1], heap,
                 [result |-> t, request |-> f.request], upd)

\* What trigger does with the outcome of the execution of handler i: the
\* error is returned (`?`), or the response is matched.
Executed(f, unit, out) ==
    LET t == TriggerSignal(out, <<f.router, f.observer, "handler", f.i>>)
        n == NextHandler(f, f.i + 1)
    IN IF out = "Error"
       THEN Step(Returning([f EXCEPT !.i = 1, !.m = 1], Err(unit), NoRequest),
                 heap, trig, upd)
       ELSE IF t = None
            THEN Step(n.frame, heap, n.trig, upd)
            ELSE Step([f EXCEPT !.pc = "triggered", !.i = 1, !.m = 1], heap,
                      [result |-> t, request |-> f.request], upd)

\* Inner middleware m of the chain around handler i is called: it calls next,
\* or returns a response or an error of its own without calling it, to the
\* middleware before it or, when it is the first, to trigger.
InnerMiddleware ==
    /\ stack # <<>>
    /\ Top.pc = "inner"
    /\ \E out \in {"next"} \cup EventReturn \cup {"Error"} :
        LET f == Top
            unit == <<f.router, f.observer, "inner", f.m>>
        IN /\ log' = Append(log, Event(f, "inner", f.m, out, NoRequest))
           /\ UNCHANGED trace
           /\ IF out = "next"
              THEN Step([f EXCEPT !.m = CalledNext(f.m, middlewares).m,
                                  !.pc = CalledNext(f.m, middlewares).pc],
                        heap, trig, upd)
              ELSE Step(Returned(f, f.m - 1, out, unit), heap, trig, upd)

\* The handler itself is called (directly, or by the last inner middleware)
\* and returns to the one that called it.
Handler ==
    /\ stack # <<>>
    /\ Top.pc = "handler"
    /\ \E out \in EventReturn \cup {"Error"} :
        LET f == Top
            unit == <<f.router, f.observer, "handler", f.i>>
        IN /\ log' = Append(log, Event(f, "handler", f.i, out, NoRequest))
           /\ trace' = Traced("signals", [trace EXCEPT !.after = @ \cup trace.signalled])
           /\ Step(Returned(f, middlewares, out, unit), heap, trig, upd)

\* Inner middleware m, whose `next` returned, returns: the result `next` gave
\* it, or a response or an error of its own.
InnerMiddlewareReturns ==
    /\ stack # <<>>
    /\ Top.pc = "after"
    /\ \E out \in {"same"} \cup EventReturn \cup {"Error"} :
        LET f == Top
            unit == <<f.router, f.observer, "inner", f.m>>
        IN Step(IF out = "same"
                THEN Returned(f, f.m - 1, f.res.out, f.res.by)
                ELSE Returned(f, f.m - 1, out, unit),
                heap, trig, upd)
    /\ UNCHANGED <<log, trace>>

\* trigger has the result of handler.call or of middlewares[0].call, and
\* matches it.  Of the calls made for this handler the log keeps the check of
\* its filters, followed by the result trigger got.
TriggerMatch ==
    /\ stack # <<>>
    /\ Top.pc = "match"
    /\ LET f == Top
           checked == CHOOSE k \in 1..Len(log) :
                          /\ log[k].unit = "check"
                          /\ \A j \in (k + 1)..Len(log) : log[j].unit # "check"
           result == [Event(f, "result", 0, f.res.out, NoRequest) EXCEPT !.by = f.res.by]
       IN /\ log' = Append(SubSeq(log, 1, checked), result)
          /\ trace' = Traced("signals",
                             [trace EXCEPT !.signalled = IF f.res.out \in {"Cancel", "Finish"}
                                                        THEN @ \cup {f.res.out} ELSE @])
          /\ Executed([f EXCEPT !.res = NoResult], f.res.by, f.res.out)

\* propagate_update_event returns, after update.trigger returned.
UpdateTriggered ==
    /\ stack # <<>>
    /\ Top.pc = "triggered"
    /\ Top.observer = UpdateObserver
    /\ Step([Top EXCEPT !.pc = "updated"], heap, trig,
            [result |-> UpdateObserverResult(trig.result), request |-> Top.request])
    /\ UNCHANGED <<log, trace>>

\* propagate_event, after propagate_update_event returned: return its
\* response, or go on with the observer of the update type, starting again
\* from the request propagate_event was called with.
Updated ==
    /\ stack # <<>>
    /\ Top.pc = "updated"
    /\ LET f == Top
           r == UpdateEventResult(upd.result)
       IN IF r = None
          THEN /\ Step([f EXCEPT !.observer = update_type,
                                 !.request = KindRequest(f.original, upd.request),
                                 !.pc = IF MaxOuter > 0 THEN "outer" ELSE "common"],
                       heap, NoResponse, [upd EXCEPT !.request = NoRequest])
               /\ log' = <<>>
          ELSE /\ Step(Returning(f, r, upd.request), heap, trig, upd)
               /\ UNCHANGED log
    /\ UNCHANGED trace

\* propagate_event, after observer.trigger returned.
Triggered ==
    /\ stack # <<>>
    /\ Top.pc = "triggered"
    /\ Top.observer # UpdateObserver
    /\ LET f == Top
           r == ObserverResult(trig.result)
       IN IF r = None
          THEN IF sub_routers(f.router) # <<>>
               THEN Step([f EXCEPT !.pc = "sub_routers", !.child = 1], heap, trig, upd)
               ELSE Step(Returning(f, Unhandled, f.request), heap, trig, upd)
          ELSE Step(Returning(f, r, f.request), heap, trig, upd)
    /\ UNCHANGED log
    /\ trace' = Traced("requests", [trace EXCEPT !.committed = FALSE, !.replaced = FALSE])

\* A propagate_event call returns: to the dispatcher, or to the router that
\* included this one, which returns the response, returns the error, or goes
\* on with its next sub router.
Return ==
    /\ stack # <<>>
    /\ Top.pc = "return"
    /\ LET f == Top
           rt == [router |-> f.router, result |-> f.response.result,
                  request |-> f.response.request]
           p == stack[Len(stack) - 1]
           s == SubRouterResult(f.response.result)
           caller ==
               IF f.response.result.tag = "Err"
               THEN Returning(p, f.response.result, NoRequest)
               ELSE IF s = None
                    THEN IF p.child < Len(sub_routers(p.router))
                         THEN [p EXCEPT !.pc = "sub_routers", !.child = p.child + 1]
                         ELSE Returning(p, Unhandled, p.request)
                    ELSE Returning(p, s, f.response.request)
           st == IF Len(stack) = 1 THEN <<>>
                 ELSE [SubSeq(stack, 1, Len(stack) - 1) EXCEPT ![Len(stack) - 1] = caller]
       IN /\ stack' = st
          /\ ret' = rt
          /\ heap' = Drop(heap, st, upd, rt)
    /\ UNCHANGED <<log, visited, trig, upd, trace>>
    /\ Built

Next ==
    \/ PropagateEvent
    \/ PropagateToSubRouter
    \/ OuterMiddleware
    \/ CommonFilters
    \/ HandlerFilters
    \/ InnerMiddleware
    \/ Handler
    \/ InnerMiddlewareReturns
    \/ TriggerMatch
    \/ UpdateTriggered
    \/ Updated
    \/ Triggered
    \/ Return

Spec == Init /\ [][Next]_vars

NotDispatching == StorageNew /\ RoutersNew /\ NoEmit /\ NoResolve /\ NoApply /\ NoFSM

\* The same calls with the history of the signals of the handlers kept, for
\* routers whose observers hold one handler each.
SignalInit ==
    /\ update_type \in UpdateTypes
    /\ handlers = 1
    /\ middlewares \in 0..MaxInner
    /\ NotPropagating
    /\ trace = [NoTrace EXCEPT !.of = "signals"]
    /\ NotDispatching

SignalSpec == SignalInit /\ [][Next]_vars

\* The same calls with the history of the requests kept.
RequestInit ==
    /\ update_type \in UpdateTypes
    /\ handlers = 1
    /\ middlewares = 1
    /\ NotPropagating
    /\ trace = [NoTrace EXCEPT !.of = "requests"]
    /\ NotDispatching

RequestSpec == RequestInit /\ [][Next]_vars

\* The same calls on observers that hold MaxHandlers handlers and a chain of
\* MaxChain inner middlewares.
ChainInit ==
    /\ update_type \in UpdateTypes
    /\ handlers = MaxHandlers
    /\ middlewares = MaxChain
    /\ NotPropagating
    /\ trace = NoTrace
    /\ NotDispatching

ChainSpec == ChainInit /\ [][Next]_vars

(* --------------------------- storage actions --------------------------- *)
\* A task calls a storage operation and starts waiting for the guard.
CallStorage(t) ==
    /\ tasks[t].pc = "idle"
    /\ calls < MaxCalls
    /\ tasks' = [tasks EXCEPT ![t].pc = "lock"]
    /\ calls' = calls + 1
    /\ UNCHANGED <<storage, mutex, last, written, dispatch_vars, build_vars, unit_vars>>

\* self.storage.lock().await returns the guard and `match guard.entry(key)`
\* picks its branch.  Which operation the task had called, and with what
\* arguments, is drawn here.
LockStorage(t) ==
    /\ tasks[t].pc = "lock"
    /\ lock(mutex)
    /\ mutex' = mutex \cup {t}
    /\ \E c \in CallsOn(DOMAIN storage) :
         tasks' = [tasks EXCEPT ![t].pc = "match", ![t].call = c,
                                ![t].entry = entry(storage, c.key)]
    /\ UNCHANGED <<storage, calls, last, written, dispatch_vars, build_vars, unit_vars>>

\* The branch runs, the guard is dropped and the operation returns.
ReturnStorage(t) ==
    /\ tasks[t].pc = "match"
    /\ LET r == Apply(storage, tasks[t].entry, tasks[t].call)
       IN /\ storage' = r.store
          /\ last' = [call |-> tasks[t].call, result |-> r.result, before |-> storage,
                      overlapped |-> last.overlapped
                                        \/ \E u \in Tasks \ {t} : tasks[u].pc # "idle"]
          /\ written' = Effect(written, tasks[t].call, r.result)
    /\ mutex' = mutex \ {t}
    /\ tasks' = [tasks EXCEPT ![t] = Idle]
    /\ UNCHANGED <<calls, dispatch_vars, build_vars, unit_vars>>

StorageInit == Init /\ handlers = 0 /\ middlewares = 0

StorageNext ==
    \/ \E t \in Tasks : CallStorage(t)
    \/ \E t \in Tasks : LockStorage(t)
    \/ \E t \in Tasks : ReturnStorage(t)

StorageSpec == StorageInit /\ [][StorageNext]_vars

\* Every operation on two keys that differ in one field only.
KeyInit ==
    /\ DispatchNew /\ handlers = 0 /\ middlewares = 0
    /\ RoutersNew /\ NoEmit /\ NoResolve /\ NoApply /\ NoFSM
    /\ \E keys \in OneFieldKeys : MemoryNew(keys)

KeySpec == KeyInit /\ [][StorageNext]_vars

(* ---------------------------- build actions ---------------------------- *)
BuildTop == building[Len(building)]
SetBuildTop(f) == [building EXCEPT ![Len(building)] = f]
BuildFrame(r, cfg) == [router |-> r, pc |-> "sub_routers", config |-> cfg, child |-> 1]
NotBuilding == UNCHANGED <<dispatch_vars, storage_vars, config, registered, unit_vars>>

\* Routers with middlewares registered on their observers, and a Config.
BuildInit ==
    /\ DispatchNew /\ handlers = 0 /\ middlewares = 0
    /\ StorageNew
    /\ NoEmit /\ NoResolve /\ NoApply /\ NoFSM
    /\ \E n \in [Routers -> 0..MaxInner], u \in 0..MaxInner :
         registered = [r \in Routers |-> [o \in ObserverNames |->
            [inner_middlewares |->
                Registered(r, o, "inner", IF o = UpdateObserver THEN u ELSE n[r]),
             outer_middlewares |-> Registered(r, o, "outer", MaxOuter)]]]
    /\ \E i, o \in 0..MaxConfig :
         config = [inner_middlewares |-> [x \in ObserverNames |-> Registered(0, x, "inner", i)],
                   outer_middlewares |-> [x \in ObserverNames |-> Registered(0, x, "outer", o)]]
    /\ router_tree = registered
    /\ building = <<>>
    /\ services = [r \in Routers |-> NoService]

\* to_service_provider is called on the root router.
ToServiceProvider ==
    /\ building = <<>>
    /\ ~services[1].built
    /\ building' = <<BuildFrame(1, config)>>
    /\ UNCHANGED <<router_tree, services>>
    /\ NotBuilding

\* register_inner_middlewares_to_sub_routers!(..): every sub router gets the
\* inner middlewares the router holds now.
RegisterToSubRouters ==
    /\ building # <<>>
    /\ BuildTop.pc = "sub_routers"
    /\ LET r == BuildTop.router
       IN router_tree' = [c \in Routers |->
            IF c \in {sub_routers(r)[j] : j \in 1..Len(sub_routers(r))}
            THEN register_inner_middlewares_to_sub_routers(router_tree[r], router_tree[c])
            ELSE router_tree[c]]
    /\ building' = SetBuildTop([BuildTop EXCEPT !.pc = "config"])
    /\ UNCHANGED services
    /\ NotBuilding

\* register_middlewares_from_config!(..), and the outer middlewares of the
\* Config are dropped from the Config the sub routers will get.
RegisterFromConfig ==
    /\ building # <<>>
    /\ BuildTop.pc = "config"
    /\ router_tree' = [router_tree EXCEPT ![BuildTop.router] =
                          register_middlewares_from_config(@, BuildTop.config)]
    /\ building' = SetBuildTop([BuildTop EXCEPT
                        !.pc = "service",
                        !.config = SubRouterConfig(@)])
    /\ UNCHANGED services
    /\ NotBuilding

\* `router.to_service_provider(config.clone())` for the next sub router.
BuildSubRouter ==
    /\ building # <<>>
    /\ BuildTop.pc = "service"
    /\ BuildTop.child <= Len(sub_routers(BuildTop.router))
    /\ building' = Append(SetBuildTop([BuildTop EXCEPT !.child = @ + 1]),
                          BuildFrame(sub_routers(BuildTop.router)[BuildTop.child],
                                     BuildTop.config))
    /\ UNCHANGED <<router_tree, services>>
    /\ NotBuilding

\* The observers become services and to_service_provider returns the Service.
BuildService ==
    /\ building # <<>>
    /\ BuildTop.pc = "service"
    /\ BuildTop.child > Len(sub_routers(BuildTop.router))
    /\ services' = [services EXCEPT ![BuildTop.router] =
                       [built |-> TRUE, observers |-> router_tree[BuildTop.router]]]
    /\ building' = SubSeq(building, 1, Len(building) - 1)
    /\ UNCHANGED router_tree
    /\ NotBuilding

BuildNext ==
    \/ ToServiceProvider
    \/ RegisterToSubRouters
    \/ RegisterFromConfig
    \/ BuildSubRouter
    \/ BuildService

BuildSpec == BuildInit /\ [][BuildNext]_vars

(* -------------------------- lifecycle actions -------------------------- *)
NotEmittingVars == UNCHANGED <<dispatch_vars, storage_vars, build_vars, lifecycle,
                               resolve_vars, strategy_vars, fsm_vars>>

\* Routers whose startup and shutdown observers may return an error.
LifecycleInit ==
    /\ DispatchNew /\ handlers = 0 /\ middlewares = 0
    /\ StorageNew /\ RoutersNew /\ NoResolve /\ NoApply /\ NoFSM
    /\ lifecycle \in [SimpleObserverNames -> SUBSET Routers]
    /\ emitting = NotEmitting

\* emit_startup is called on the root router.
EmitStartup ==
    /\ emitting.pc = "idle"
    /\ emitting' = [emitting EXCEPT !.pc = "for", !.event = "startup"]
    /\ NotEmittingVars

\* emit_shutdown is called on the root router.
EmitShutdown ==
    /\ emitting.pc = "idle"
    /\ emitting' = [emitting EXCEPT !.pc = "for", !.event = "shutdown"]
    /\ NotEmittingVars

\* `startup.trigger(()).await?` for the next observer of the loop.
TriggerLifecycle ==
    /\ emitting.pc = "for"
    /\ emitting.index < Len(LifecycleObservers(1))
    /\ LET r == LifecycleObservers(1)[emitting.index + 1]
       IN emitting' = IF r \in lifecycle[emitting.event]
                      THEN [emitting EXCEPT !.pc = "done", !.result = "Err",
                                            !.triggered = Append(@, r)]
                      ELSE [emitting EXCEPT !.index = @ + 1,
                                            !.triggered = Append(@, r)]
    /\ NotEmittingVars

\* The loop is over: Ok(()).
ReturnLifecycle ==
    /\ emitting.pc = "for"
    /\ emitting.index = Len(LifecycleObservers(1))
    /\ emitting' = [emitting EXCEPT !.pc = "done", !.result = "Ok"]
    /\ NotEmittingVars

LifecycleNext ==
    \/ EmitStartup
    \/ EmitShutdown
    \/ TriggerLifecycle
    \/ ReturnLifecycle

LifecycleSpec == LifecycleInit /\ [][LifecycleNext]_vars

(* --------------------------- resolve actions --------------------------- *)
NotResolving == UNCHANGED <<dispatch_vars, storage_vars, build_vars, lifecycle_vars,
                            telegram_handlers, strategy_vars, fsm_vars>>

\* Routers with handlers registered on some of their observers.
ResolveInit ==
    /\ DispatchNew /\ handlers = 0 /\ middlewares = 0
    /\ StorageNew /\ RoutersNew /\ NoEmit /\ NoApply /\ NoFSM
    /\ \E registrations \in {x \in SUBSET (Routers \X telegram_observers) :
                                Cardinality(x) <= MaxRegistered} :
         telegram_handlers = [r \in Routers |->
                                {o \in telegram_observers : <<r, o>> \in registrations}]
    /\ used = NoUsed

ResolveUsedUpdateTypesWithSkip ==
    \E self \in Routers, skip_update_types \in SUBSET UsedUpdateTypes :
        /\ used = NoUsed
        /\ used' = [fn |-> "resolve_used_update_types_with_skip",
                    router |-> self,
                    skip |-> skip_update_types,
                    result |-> resolve_used_update_types_with_skip(
                                   telegram_handlers, self, skip_update_types)]
        /\ NotResolving

ResolveUsedUpdateTypes ==
    \E self \in Routers :
        /\ used = NoUsed
        /\ used' = [fn |-> "resolve_used_update_types",
                    router |-> self,
                    skip |-> {},
                    result |-> resolve_used_update_types(telegram_handlers, self)]
        /\ NotResolving

ResolveNext ==
    \/ ResolveUsedUpdateTypesWithSkip
    \/ ResolveUsedUpdateTypes

ResolveSpec == ResolveInit /\ [][ResolveNext]_vars

(* -------------------------- strategy actions --------------------------- *)
NotApplying == UNCHANGED <<dispatch_vars, storage_vars, build_vars, lifecycle_vars,
                           resolve_vars, fsm_vars>>

StrategyInit ==
    /\ DispatchNew /\ handlers = 0 /\ middlewares = 0
    /\ StorageNew /\ RoutersNew /\ NoEmit /\ NoResolve /\ NoFSM
    /\ applied = NoApplied

Applied(self, by_default, chat_id, user_id, message_thread_id, business_connection_id) ==
    [strategy |-> self, by_default |-> by_default,
     chat_id |-> chat_id, user_id |-> user_id,
     message_thread_id |-> message_thread_id,
     business_connection_id |-> business_connection_id,
     result |-> apply(self, chat_id, user_id, message_thread_id, business_connection_id)]

\* strategy.apply(chat_id, user_id, message_thread_id, business_connection_id)
StrategyApply ==
    \E self \in Strategy, chat_id \in Ids, user_id \in Ids,
       message_thread_id \in ThreadIds, business_connection_id \in ConnectionIds :
        /\ applied' = Applied(self, FALSE, chat_id, user_id,
                              message_thread_id, business_connection_id)
        /\ NotApplying

\* Strategy::default().apply(chat_id, user_id, message_thread_id, business_connection_id)
StrategyDefaultApply ==
    \E chat_id \in Ids, user_id \in Ids,
       message_thread_id \in ThreadIds, business_connection_id \in ConnectionIds :
        /\ applied' = Applied(Strategy_default, TRUE, chat_id, user_id,
                              message_thread_id, business_connection_id)
        /\ NotApplying

StrategyNext ==
    \/ StrategyApply
    \/ StrategyDefaultApply

StrategySpec == StrategyInit /\ [][StrategyNext]_vars

(* ------------------------- FSMContext actions -------------------------- *)
NotFSM == UNCHANGED <<dispatch_vars, storage_vars, build_vars, lifecycle_vars,
                      resolve_vars, strategy_vars, fsm_middleware>>

\* A middleware with some strategy and some destiny over a storage that
\* holds a state for at most one key and can be read or not, and a request
\* whose context holds some of the ids of the event.
FSMInit ==
    /\ DispatchNew /\ handlers = 0 /\ middlewares = 0
    /\ StorageNew /\ RoutersNew /\ NoEmit /\ NoResolve /\ NoApply
    /\ \E strategy \in Strategy, destiny \in Destinies, k \in FSMStorageKeys,
          holds \in BOOLEAN, fails \in BOOLEAN :
         /\ ~holds => k = CHOOSE x \in FSMStorageKeys : TRUE
         /\ fsm_middleware = [strategy |-> strategy, destiny |-> destiny,
                              storage |->
                                  [states |-> [x \in IF holds THEN {k} ELSE {} |->
                                                 <<"state1">>],
                                   fails |-> fails]]
    /\ \E user \in {<<>>, <<20>>}, chat \in {<<>>, <<10>>},
          thread \in ThreadIds, connection \in ConnectionIds :
         fsm_request = [bot_id |-> BotId,
                        context |-> [NoContext EXCEPT
                            !["event_user"] = user,
                            !["event_chat"] = chat,
                            !["event_message_thread_id"] = thread,
                            !["event_business_connection_id"] = connection]]
    /\ fsm_response = NotCalled

\* call, no user in the context: only the storage is inserted.
CallWithoutUser ==
    /\ fsm_response.pc = "idle"
    /\ resolve_event_context(fsm_middleware, fsm_request.bot_id, fsm_request.context) = <<>>
    /\ fsm_request' = [fsm_request EXCEPT
                          !.context = insert(@, "fsm_storage", "storage")]
    /\ fsm_response' = [fsm_response EXCEPT !.pc = "returned",
                                            !.event_return = EventReturn_default]
    /\ NotFSM

\* call, a user in the context: fsm_context.get_state() is awaited.
CallWithUser ==
    /\ fsm_response.pc = "idle"
    /\ resolve_event_context(fsm_middleware, fsm_request.bot_id, fsm_request.context) # <<>>
    /\ fsm_response' = [fsm_response EXCEPT
          !.pc = "get_state",
          !.fsm_context = resolve_event_context(fsm_middleware, fsm_request.bot_id,
                                                fsm_request.context)]
    /\ UNCHANGED fsm_request
    /\ NotFSM

\* get_state returned: the state, the fsm context and the storage are
\* inserted, or the error of the storage is returned.
ReturnWithUser ==
    /\ fsm_response.pc = "get_state"
    /\ LET fsm_context == fsm_response.fsm_context[1]
           got == Context_get_state(fsm_middleware.storage, fsm_context)
           with_state == IF got.state # <<>>
                         THEN insert(fsm_request.context, "fsm_state", got.state[1])
                         ELSE fsm_request.context
       IN IF got.ok
          THEN /\ fsm_request' = [fsm_request EXCEPT !.context =
                     insert(insert(with_state, "fsm_context", fsm_context),
                            "fsm_storage", "storage")]
               /\ fsm_response' = [fsm_response EXCEPT
                     !.pc = "returned",
                     !.reads = Append(@, fsm_context),
                     !.event_return = EventReturn_default]
          ELSE /\ UNCHANGED fsm_request
               /\ fsm_response' = [fsm_response EXCEPT
                     !.pc = "returned",
                     !.reads = Append(@, fsm_context),
                     !.error = TRUE]
    /\ NotFSM

FSMNext ==
    \/ CallWithoutUser
    \/ CallWithUser
    \/ ReturnWithUser

FSMSpec == FSMInit /\ [][FSMNext]_vars

(* ------------------------------ properties ----------------------------- *)
Last(s) == s[Len(s)]
IsExec(e) == e.unit \in {"inner", "handler"}
IsResult(e) == e.unit = "result"
UnitOf(e) == <<e.router, e.observer, e.unit, e.idx>>
HandlerOf(e) == <<e.router, e.observer, "handler", e.handler>>
StagePcs == {"outer", "common", "check", "inner", "handler", "triggered"}
Children(r) == {sub_routers(r)[j] : j \in 1..Len(sub_routers(r))}
Visited == {visited[j] : j \in 1..Len(visited)}

\* C1: within one trigger the handlers are considered in registration order:
\* the filters of handler 1 are checked right after the common filters passed,
\* those of handler i+1 right after handler i failed its filters or its
\* execution signalled Skip to trigger, and a handler is executed only right
\* after its own filters passed (so the first one executed is the first one
\* that passes); the result trigger gets is that of the execution of the
\* handler whose filters passed last.
C1_RegistrationOrder ==
    \A k \in 1..Len(log) :
        /\ log[k].unit = "check" =>
            /\ k > 1
            /\ \/ /\ log[k].idx = 1
                  /\ log[k - 1].unit = "common"
                  /\ log[k - 1].out = "pass"
               \/ /\ log[k - 1].unit = "check"
                  /\ log[k - 1].idx = log[k].idx - 1
                  /\ log[k - 1].out = "fail"
               \/ /\ IsResult(log[k - 1])
                  /\ log[k - 1].handler = log[k].idx - 1
                  /\ log[k - 1].out = "Skip"
        /\ IsExec(log[k]) =>
            /\ k > 1
            /\ \/ /\ log[k - 1].unit = "check"
                  /\ log[k - 1].idx = log[k].handler
                  /\ log[k - 1].out = "pass"
               \/ /\ log[k - 1].unit = "inner"
                  /\ log[k - 1].handler = log[k].handler
                  /\ log[k - 1].out = "next"
        /\ IsResult(log[k]) =>
            /\ k > 1
            /\ log[k - 1].unit = "check"
            /\ log[k - 1].idx = log[k].handler
            /\ log[k - 1].out = "pass"

\* Handler 2 is executed after handler 1, called by trigger itself, was
\* executed and signalled Skip.
C1_Witness ==
    /\ middlewares = 0
    /\ \E j, k \in 1..Len(log) :
        /\ j < k
        /\ IsResult(log[j]) /\ log[j].handler = 1 /\ log[j].out = "Skip"
        /\ log[k].unit = "handler" /\ log[k].idx = 2

\* C2: a router whose own observer (the one selected by the update type)
\* yields Rejected returns Unhandled; a router whose sub router returned
\* Rejected returns that response unchanged.
C2_RejectionAsymmetry ==
    (stack # <<>> /\ Top.pc = "return") =>
        /\ (ret = NoReturn /\ Top.observer # UpdateObserver /\ trig.result = Rejected)
              => Top.response.result = Unhandled
        /\ (ret.router # 0 /\ ret.result = Rejected)
              => Top.response = [result |-> Rejected, request |-> ret.request]

\* A router is about to return the Rejected response of its sub router.
C2_Witness ==
    /\ stack # <<>>
    /\ Top.pc = "return"
    /\ ret.router \in Children(Top.router)
    /\ ret.result = Rejected
    /\ Top.response.result = Rejected

\* C3: a router runs its observer selected by the update type only after its
\* propagate_update_event returned, and returned Unhandled; when it returned
\* Handled or Rejected the router returns that response without running that
\* observer or any sub router.
C3_UpdateObserverFirst ==
    stack # <<>> =>
        /\ \A k \in 1..(Len(stack) - 1) : stack[k].observer # UpdateObserver
        /\ (Top.observer # UpdateObserver /\ Top.pc \in StagePcs)
              => upd.result = Unhandled
        /\ (Top.observer = UpdateObserver /\ upd.result.tag \in {"Handled", "Rejected"})
              => /\ Top.pc \in {"updated", "return"}
                 /\ Top.pc = "return" => Top.response = upd
                 /\ Children(Top.router) \cap Visited = {}
                 /\ \A k \in 1..Len(log) : log[k].observer = UpdateObserver

\* A router returns because a handler of its update observer handled the event.
C3_Witness ==
    /\ stack # <<>>
    /\ Top.pc = "return"
    /\ Top.observer = UpdateObserver
    /\ upd.result.tag = "Handled"
    /\ sub_routers(Top.router) # <<>>

\* C4: when the common filters fail, trigger returns Rejected and nothing
\* else is called: no filters of a handler, no inner middleware, no handler.
C4_CommonFilterRejects ==
    \A k \in 1..Len(log) :
        (log[k].unit = "common" /\ log[k].out = "fail")
            => Len(log) = 1 /\ trig.result = Rejected

\* The common filters of an observer with handlers failed.
C4_Witness ==
    /\ log # <<>>
    /\ log[1].unit = "common"
    /\ log[1].out = "fail"
    /\ handlers = MaxHandlers
    /\ trig.result = Rejected

Skipped(i) ==
    \E k \in 1..Len(log) :
        \/ log[k].unit = "check" /\ log[k].idx = i /\ log[k].out = "fail"
        \/ IsResult(log[k]) /\ log[k].handler = i /\ log[k].out = "Skip"

AllSkipped ==
    /\ log # <<>>
    /\ log[1].unit = "common"
    /\ log[1].out = "pass"
    /\ \A i \in 1..handlers : Skipped(i)

\* C5: trigger returns Unhandled exactly when the common filters passed and
\* every registered handler failed its filters or was executed and signalled
\* Skip; a router without sub routers then returns Unhandled.
C5_UnhandledExactly ==
    /\ trig.result = Unhandled <=> AllSkipped
    /\ (/\ stack # <<>>
        /\ Top.pc = "return"
        /\ ret = NoReturn
        /\ Top.observer # UpdateObserver
        /\ trig.result = Unhandled
        /\ sub_routers(Top.router) = <<>>) => Top.response.result = Unhandled

\* A router without sub routers returns Unhandled after one handler failed
\* its filters and another one signalled Skip.
C5_Witness ==
    /\ stack # <<>>
    /\ Top.pc = "return"
    /\ Top.observer # UpdateObserver
    /\ sub_routers(Top.router) = <<>>
    /\ trig.result = Unhandled
    /\ Top.response.result = Unhandled
    /\ \E j, k \in 1..Len(log) :
        /\ log[j].unit = "check" /\ log[j].out = "fail"
        /\ IsResult(log[k]) /\ log[k].out = "Skip"

\* C6: an execution that signals Cancel makes trigger return Rejected, one
\* that signals Finish makes it return Handled by that handler; in both cases
\* nothing is called after it.
C6_CancelAndFinishStop ==
    \A k \in 1..Len(log) :
        IsResult(log[k]) =>
            /\ log[k].out = "Cancel" => (k = Len(log) /\ trig.result = Rejected)
            /\ log[k].out = "Finish"
                  => (k = Len(log) /\ trig.result = Handled(HandlerOf(log[k])))

\* The execution of the first of several handlers signalled Cancel.
C6_Witness ==
    /\ log # <<>>
    /\ IsResult(Last(log))
    /\ Last(log).handler = 1
    /\ Last(log).out = "Cancel"
    /\ handlers > 1
    /\ trig.result = Rejected

Pos(r) == CHOOSE a \in 1..Len(visited) : visited[a] = r

\* C7: a router calls its sub routers only after its own observer returned
\* Unhandled, one after the other in registration order, each after the one
\* before it returned Unhandled; it returns the response of the first sub
\* router that returned Handled or Rejected unchanged, without calling the
\* sub routers after it, and returns Unhandled when the last one returned
\* Unhandled.
C7_SubRoutersInOrder ==
    /\ Len(visited) = Cardinality(Visited)
    /\ \A r \in Routers : \A i, j \in 1..Len(sub_routers(r)) :
          (i < j /\ sub_routers(r)[j] \in Visited)
              => /\ sub_routers(r)[i] \in Visited
                 /\ Pos(sub_routers(r)[i]) < Pos(sub_routers(r)[j])
    /\ stack # <<>> =>
        LET subs == sub_routers(Top.router)
        IN /\ Top.pc = "sub_routers" =>
                /\ Top.child \in 1..Len(subs)
                /\ \A j \in 1..Len(subs) : subs[j] \in Visited <=> j < Top.child
                /\ IF Top.child = 1
                   THEN ret = NoReturn /\ trig.result = Unhandled
                   ELSE ret.router = subs[Top.child - 1] /\ ret.result = Unhandled
           /\ (Top.pc = "return" /\ ret.router # 0) =>
                \E j \in 1..Len(subs) :
                    /\ ret.router = subs[j]
                    /\ \A i \in 1..Len(subs) : subs[i] \in Visited <=> i <= j
                    /\ ret.result.tag \in {"Handled", "Rejected"}
                          => Top.response = [result |-> ret.result, request |-> ret.request]
                    /\ ret.result = Unhandled
                          => j = Len(subs) /\ Top.response.result = Unhandled

\* The second sub router handled the event after the first returned Unhandled.
C7_Witness ==
    /\ stack # <<>>
    /\ Top.pc = "return"
    /\ Len(sub_routers(Top.router)) >= 2
    /\ ret.router = sub_routers(Top.router)[2]
    /\ ret.result.tag = "Handled"
    /\ Top.response.result = ret.result

\* C8: after an outer middleware returned Cancel nothing else of that router
\* is called (no later outer middleware, no trigger, no sub router), and
\* propagate_update_event and propagate_event return Rejected.
C8_OuterCancelRejects ==
    \A k \in 1..Len(log) :
        (log[k].unit = "outer" /\ log[k].out = "Cancel") =>
            /\ k = Len(log)
            /\ trig = NoResponse
            /\ Children(log[k].router) \cap Visited = {}
            /\ log[k].observer = UpdateObserver => upd.result = Rejected
            /\ (stack # <<>> /\ Top.router = log[k].router) =>
                  /\ Top.pc \in {"updated", "return"}
                  /\ Top.pc = "updated" => log[k].observer = UpdateObserver
                  /\ Top.pc = "return" => Top.response.result = Rejected
            /\ ret.router = log[k].router => ret.result = Rejected

\* A router with sub routers returns Rejected after the first of several outer
\* middlewares of its observer for the update type returned Cancel.
C8_Witness ==
    /\ stack # <<>>
    /\ log # <<>>
    /\ Last(log).unit = "outer"
    /\ Last(log).out = "Cancel"
    /\ Last(log).observer # UpdateObserver
    /\ Last(log).idx < MaxOuter
    /\ Top.router = Last(log).router
    /\ sub_routers(Top.router) # <<>>
    /\ Top.pc = "return"

\* C9: right after an outer middleware returned Skip, the request the later
\* stages get, and the contents of its context, are those the middleware was
\* called with.
C9_SkipDiscardsAll ==
    (log # <<>> /\ Last(log).unit = "outer" /\ Last(log).out = "Skip") =>
        /\ Top.request = Last(log).request
        /\ heap[Top.request.ctx] = Last(log).keys

\* What the code does keep after an outer middleware returned Skip: the request
\* the later stages get is the one the middleware was called with (the request
\* it returned is dropped) and the next outer middleware is called with it;
\* the shared context of that request holds what it held plus the key the
\* middleware inserted into it, if it did.
SkipKeepsRequest ==
    /\ (log # <<>> /\ Last(log).unit = "outer" /\ Last(log).out = "Skip") =>
          /\ Top.request = Last(log).request
          /\ heap[Top.request.ctx]
                = IF Last(log).updated = Last(log).request
                  THEN Last(log).keys \cup {Key(Last(log).observer)}
                  ELSE Last(log).keys
    /\ \A k \in 2..Len(log) :
          (log[k - 1].unit = "outer" /\ log[k - 1].out = "Skip")
              => log[k].request = log[k - 1].request

\* An outer middleware returned Skip together with a request of its own.
SkipWithOwnRequest ==
    /\ log # <<>>
    /\ Last(log).unit = "outer"
    /\ Last(log).out = "Skip"
    /\ Last(log).updated # Last(log).request
    /\ Top.request = Last(log).request
    /\ Key(Last(log).observer) \notin Last(log).keys

RECURSIVE Ancestors(_)
Ancestors(r) ==
    IF r = 1 THEN {1}
    ELSE {r} \cup Ancestors(CHOOSE p \in Routers : r \in Children(p))

\* The Result an inner middleware or a handler returned in the call e.
ResultOf(e) == [out |-> e.out, by |-> IF e.out = "Error" THEN UnitOf(e) ELSE NoUnit]

\* Who raised the error of e: the outer middleware called, or the one whose
\* error trigger got.
Raiser(e) == IF IsResult(e) THEN e.by ELSE UnitOf(e)

\* What follows an error that aborts the trigger: nothing else is called, the
\* trigger returns no response, no other router is called, and the router and
\* each of its ancestors in turn return that same error.
Aborted(k) ==
    /\ k = Len(log)
    /\ trig = NoResponse
    /\ Last(visited) = log[k].router
    /\ IF stack # <<>>
       THEN /\ Top.pc = "return"
            /\ Top.router \in Ancestors(log[k].router)
            /\ Top.response = [result |-> Err(Raiser(log[k])), request |-> NoRequest]
            /\ Top.router # log[k].router
                  => /\ ret.router \in Children(Top.router)
                     /\ ret.result = Err(Raiser(log[k]))
       ELSE ret = [router |-> 1, result |-> Err(Raiser(log[k])),
                   request |-> NoRequest]

\* C10 as stated: an error raised by an outer middleware, an inner middleware
\* or a handler aborts the trigger: no call is made after the one that raised
\* it, trigger gets that error, and the router and each of its ancestors in
\* turn return it.
C10_ErrorAborts ==
    \A k \in 1..Len(log) :
        /\ (log[k].out = "Error" /\ IsExec(log[k])) =>
              /\ k = Len(log)
              /\ stack # <<>>
              /\ Top.pc \in {"after", "match"}
              /\ Top.res = ResultOf(log[k])
        /\ (log[k].out = "Error" /\ ~IsExec(log[k])) => Aborted(k)

\* C10, for the errors trigger gets: an error raised by an outer middleware,
\* and an error trigger gets from the execution of a handler, abort the
\* trigger as stated.  The error of a handler reaches trigger when no inner
\* middleware is registered, that of the first inner middleware always; the
\* error of a handler or of a later inner middleware is returned to the inner
\* middleware whose `next` called it (which may return another result).
C10_ErrorToTriggerAborts ==
    /\ \A k \in 1..Len(log) :
          (log[k].out = "Error" /\ ~IsExec(log[k])) => Aborted(k)
    /\ (stack # <<>> /\ log # <<>> /\ IsExec(Last(log)) /\ Last(log).out = "Error") =>
          /\ Top.pc \in {"after", "match"}
          /\ (Last(log).unit = "handler" /\ middlewares = 0)
                => (Top.pc = "match" /\ Top.res = ResultOf(Last(log)))
          /\ (Last(log).unit = "inner" /\ Last(log).idx = 1)
                => (Top.pc = "match" /\ Top.res = ResultOf(Last(log)))
          /\ (Top.pc = "after" /\ Last(log).unit = "handler" /\ Top.m = middlewares)
                => Top.res = ResultOf(Last(log))
          /\ (Top.pc = "after" /\ Last(log).unit = "inner" /\ Top.m = Last(log).idx - 1)
                => Top.res = ResultOf(Last(log))

\* The root returned the error of a handler of a router two levels below it,
\* which was not the last handler of its observer and was called by an inner
\* middleware.
C10_Witness ==
    /\ stack = <<>>
    /\ middlewares > 0
    /\ log # <<>>
    /\ IsResult(Last(log))
    /\ Last(log).out = "Error"
    /\ Last(log).by = HandlerOf(Last(log))
    /\ Last(log).handler < handlers
    /\ Cardinality(Ancestors(Last(log).router)) >= 3
    /\ ret.result = Err(Last(log).by)

(* -------------------------- storage properties ------------------------ *)
DataOf(store, key) == store[Slot(store, key)].data
TextOf(value) == IF value = NoValue THEN NoText ELSE to_string(value).text
AllIdle == \A t \in Tasks : tasks[t].pc = "idle"

\* C11: concurrent operations never lose an update: whatever the interleaving
\* of the tasks, the Record of every key is the one the operations that took
\* effect produce when applied one after the other, in the order in which
\* they got the guard: its stack holds every state they pushed and did not
\* pop or clear, its data map every value they put and did not replace or
\* remove.
C11_NoLostUpdate ==
    \A k \in StorageKeys :
        /\ get_states(storage, k) = written[k].states
        /\ \A f \in Fields : DataOf(storage, k)[f] = TextOf(written[k].data[f])

\* The only two calls made, set_state calls on one key of which one was
\* called before the other returned, left both states on the stack.
C11_Witness ==
    /\ AllIdle
    /\ calls = 2
    /\ last.overlapped
    /\ last.call.name = "set_state"
    /\ Len(get_states(last.before, last.call.key)) = 1
    /\ Len(get_states(storage, last.call.key)) = 2

\* C12: whatever the interleaving of the tasks, an operation on one key
\* leaves the Record of every other key as it was, also when the other key
\* differs from it in one field only; two keys are the same Record only if
\* all their fields are equal: the entry an operation finds for its key is
\* occupied exactly when a Record is stored under that very key.
C12_KeysIsolated ==
    /\ \A k \in DOMAIN storage :
          (last.call.name # "none" /\ k # last.call.key) => storage[k] = last.before[k]
    /\ \A a, b \in DOMAIN storage : Slot(storage, a) = Slot(storage, b) => a = b
    /\ \A t \in Tasks :
          tasks[t].pc = "match" =>
              (tasks[t].entry = "Occupied" <=> storage[tasks[t].call.key].present)

\* remove_data ran on a key that had a Record while another key, which
\* differs from it in the destiny only, had states, after a call that was
\* made before another one returned.
C12_Witness ==
    /\ last.call.name = "remove_data"
    /\ last.before[last.call.key].present
    /\ last.overlapped
    /\ \E k \in DOMAIN storage :
          /\ k # last.call.key
          /\ [k EXCEPT !.destiny = last.call.key.destiny] = last.call.key
          /\ storage[k].states # <<>>

\* C13: the states of a key are a stack: set_state pushes, set_previous_state
\* removes the top only (nothing when the stack is empty or the key absent),
\* remove_states empties it; get_states is the stack, oldest first, and
\* get_state its top, or none.
C13_StatesAreStack ==
    /\ LET c == last.call
           b == get_states(last.before, c.key)
           a == get_states(storage, c.key)
       IN /\ c.name = "set_state" => a = Append(b, c.state)
          /\ c.name = "set_previous_state"
                => a = IF b = <<>> THEN <<>> ELSE SubSeq(b, 1, Len(b) - 1)
          /\ c.name = "remove_states" => a = <<>>
    /\ \A k \in StorageKeys :
          /\ get_states(storage, k) = written[k].states
          /\ get_state(storage, k) =
                IF get_states(storage, k) = <<>> THEN <<>>
                ELSE <<get_states(storage, k)[Len(get_states(storage, k))]>>

\* set_previous_state took the top off a stack of two different states.
C13_Witness ==
    /\ last.call.name = "set_previous_state"
    /\ Len(get_states(last.before, last.call.key)) = 2
    /\ get_states(last.before, last.call.key)[1] # get_states(last.before, last.call.key)[2]
    /\ get_state(storage, last.call.key) = <<get_states(last.before, last.call.key)[1]>>

\* C14: get_value of a field gives the value that a set_value (or set_data)
\* that succeeded put there last, read as the type it was written with, and
\* none for a field that holds no value.
C14_ValueReadBack ==
    \A k \in StorageKeys : \A f \in Fields :
        get_value(storage, k, f, written[k].data[f].ty)
            = [result |-> "Ok", value |-> written[k].data[f]]

\* C15: set_state, set_previous_state and remove_states leave the data map of
\* the key as it was; set_value and remove_data leave its states stack as it
\* was, and remove_data leaves the data map empty.
C15_FrameEffects ==
    LET c == last.call
    IN /\ c.name \in {"set_state", "set_previous_state", "remove_states"}
            => DataOf(storage, c.key) = DataOf(last.before, c.key)
       /\ c.name \in {"set_value", "remove_data"}
            => get_states(storage, c.key) = get_states(last.before, c.key)
       /\ c.name = "remove_data" => DataOf(storage, c.key) = EmptyData

\* remove_states ran on a key that had states and data.
C15_Witness ==
    /\ last.call.name = "remove_states"
    /\ get_states(last.before, last.call.key) # <<>>
    /\ DataOf(storage, last.call.key) # EmptyData

\* C16: set_data replaces the data map of the key: afterwards get_data has
\* exactly the fields of the map passed (none for an empty map), and the
\* states stack is as it was.
C16_SetDataReplaces ==
    (last.call.name = "set_data" /\ last.result = "Ok") =>
        /\ get_data(storage, last.call.key, "AOptionSkip") = [result |-> "Ok", data |-> last.call.data]
        /\ get_states(storage, last.call.key) = get_states(last.before, last.call.key)

\* set_data put a map without a field that the key had, on a key with states.
C16_Witness ==
    /\ last.call.name = "set_data"
    /\ last.result = "Ok"
    /\ get_states(storage, last.call.key) # <<>>
    /\ \E f \in Fields :
          /\ DataOf(last.before, last.call.key)[f] # NoText
          /\ last.call.data[f] = NoValue

(* --------------------------- build properties -------------------------- *)
\* The routers from the root down to r.
RECURSIVE Path(_)
Path(r) == IF r = 1 THEN <<1>> ELSE Append(Path(CHOOSE p \in Routers : r \in Children(p)), r)

RECURSIVE OwnAlong(_, _)
OwnAlong(path, o) ==
    IF path = <<>> THEN <<>>
    ELSE registered[path[1]][o].inner_middlewares
            \o OwnAlong(SubSeq(path, 2, Len(path)), o)

\* C17: in every Service built, the inner middlewares of each observer are
\* those of the Config for that observer, in its order, then those every
\* router from the root down to this one registered on the observer of the
\* same name, in their order; each once, none of another observer.
C17_InheritedInnerChain ==
    \A r \in Routers : \A o \in ObserverNames :
        services[r].built =>
            services[r].observers[o].inner_middlewares
                = config.inner_middlewares[o] \o OwnAlong(Path(r), o)

\* A router two levels below the root was built; the Config, the root, the
\* router between them and the router itself all hold an inner middleware
\* for the observer of messages, and the update observer holds one as well.
C17_Witness ==
    \E r \in Routers :
        /\ Len(Path(r)) = 3
        /\ services[r].built
        /\ config.inner_middlewares["message"] # <<>>
        /\ \A j \in 1..3 : registered[Path(r)[j]]["message"].inner_middlewares # <<>>
        /\ registered[r][UpdateObserver].inner_middlewares # <<>>

(* ------------------------- lifecycle properties ------------------------ *)
RECURSIVE PreOrder(_)
RECURSIVE PreOrderEach(_)
\* The routers of the tree under r, depth-first, a router before its sub routers.
PreOrder(r) == <<r>> \o PreOrderEach(sub_routers(r))
PreOrderEach(routers) ==
    IF routers = <<>> THEN <<>>
    ELSE PreOrder(Head(routers)) \o PreOrderEach(Tail(routers))

\* Position of the first router of the sequence whose observer returns an
\* error, or 0.
FirstError(routers, errors) ==
    IF \E k \in 1..Len(routers) : routers[k] \in errors
    THEN CHOOSE k \in 1..Len(routers) :
            /\ routers[k] \in errors
            /\ \A j \in 1..(k - 1) : routers[j] \notin errors
    ELSE 0

\* C18: emit_startup and emit_shutdown trigger the observer of every router
\* of the tree once, depth-first and a router before its sub routers, up to
\* and including the first one that returns an error, and return that error.
C18_EveryRouterPreOrder ==
    emitting.pc = "done" =>
        LET order == PreOrder(1)
            k == FirstError(order, lifecycle[emitting.event])
        IN IF k = 0
           THEN emitting.result = "Ok" /\ emitting.triggered = order
           ELSE emitting.result = "Err" /\ emitting.triggered = SubSeq(order, 1, k)

(* -------------------------- resolve properties ------------------------- *)
\* The routers of the tree under r, r included.
TreeOf(r) == {d \in Routers : \E j \in 1..Len(Path(d)) : Path(d)[j] = r}

\* C19: the result for a router is the set of UpdateTypes whose observer
\* holds a handler in the router or in a router below it, without the
\* skipped ones; the update observer adds nothing, and
\* resolve_used_update_types is the call that skips nothing.
C19_UsedUpdateTypes ==
    used.router # 0 =>
        /\ used.result
             = {k \in UsedUpdateTypes :
                   \E d \in TreeOf(used.router) : k \in telegram_handlers[d]} \ used.skip
        /\ UpdateObserver \notin used.result
        /\ NoUpdateType \notin used.result
        /\ used.fn = "resolve_used_update_types" =>
             /\ used.skip = {}
             /\ used.result = resolve_used_update_types_with_skip(
                                  telegram_handlers, used.router, {})

\* A call on the root that skips a kind the root holds a handler for, and
\* that gets a kind from a router two levels below only; an update observer
\* holds a handler too.
C19_Witness ==
    /\ used.router = 1
    /\ used.skip = {"edited_message"}
    /\ "edited_message" \in telegram_handlers[1]
    /\ used.result = {"message"}
    /\ \E d \in Routers :
         /\ Len(Path(d)) = 3
         /\ \A r \in Routers : "message" \in telegram_handlers[r] <=> r = d
    /\ \E r \in Routers : UpdateObserver \in telegram_handlers[r]

(* ------------------------- strategy properties ------------------------- *)
\* C20: the ids Strategy::apply returns depend on the strategy and the
\* arguments only: (chat_id, user_id) for UserInChat, (chat_id, chat_id) for
\* Chat, (user_id, user_id) for GlobalUser whatever the chat_id; for chat_id
\* 10 and user_id 20 these are (10, 20), (10, 10), (20, 20); the default
\* strategy is UserInChat.
C20_StrategyIds ==
    LET ids == <<applied.result.chat_id, applied.result.user_id>>
    IN /\ applied.strategy = "UserInChat" => ids = <<applied.chat_id, applied.user_id>>
       /\ applied.strategy = "Chat" => ids = <<applied.chat_id, applied.chat_id>>
       /\ applied.strategy = "GlobalUser" => ids = <<applied.user_id, applied.user_id>>
       /\ (applied.chat_id = 10 /\ applied.user_id = 20) =>
            /\ applied.strategy = "UserInChat" => ids = <<10, 20>>
            /\ applied.strategy = "Chat" => ids = <<10, 10>>
            /\ applied.strategy = "GlobalUser" => ids = <<20, 20>>
       /\ applied.strategy # "none" =>
            /\ applied.result = apply(applied.strategy, applied.chat_id, applied.user_id,
                                      applied.message_thread_id,
                                      applied.business_connection_id)
            /\ \A chat_id \in Ids :
                 LET other == apply("GlobalUser", chat_id, applied.user_id,
                                    applied.message_thread_id,
                                    applied.business_connection_id)
                 IN <<other.chat_id, other.user_id>> = <<applied.user_id, applied.user_id>>
       /\ applied.by_default =>
            /\ applied.strategy = "UserInChat"
            /\ ids = <<applied.chat_id, applied.user_id>>

\* Chat was applied to chat_id 10 and user_id 20.
C20_Witness ==
    /\ applied.strategy = "Chat"
    /\ applied.chat_id = 10
    /\ applied.user_id = 20
    /\ applied.result.chat_id = 10
    /\ applied.result.user_id = 10

(* --------------------------- FSMContext properties --------------------- *)
\* The ids of the event as the context of the request holds them.
EventUser == fsm_request.context["event_user"]
EventChat == fsm_request.context["event_chat"]

\* The key the strategy of the middleware gives for the event of a user.
StrategyKey ==
    LET user_id == EventUser[1]
        chat_id == IF EventChat = <<>> THEN user_id ELSE EventChat[1]
        ids == apply(fsm_middleware.strategy, chat_id, user_id,
                     fsm_request.context["event_message_thread_id"],
                     fsm_request.context["event_business_connection_id"])
    IN [bot_id |-> fsm_request.bot_id,
        chat_id |-> ids.chat_id, user_id |-> ids.user_id,
        message_thread_id |-> ids.message_thread_id,
        business_connection_id |-> ids.business_connection_id,
        destiny |-> fsm_middleware.destiny]

\* What a call for an event without a user does: Finish and no error,
\* neither fsm_context nor fsm_state inserted, the storage not read.
NoUserPublished ==
    /\ fsm_response.event_return = "Finish"
    /\ ~fsm_response.error
    /\ fsm_request.context["fsm_context"] = <<>>
    /\ fsm_request.context["fsm_state"] = <<>>
    /\ fsm_response.reads = <<>>

\* What a call for the event of a user publishes: fsm_context for the key of
\* the strategy, the user_id standing for the chat_id when there is no chat,
\* and fsm_state exactly when the storage holds a state for that key.
UserPublished ==
    /\ fsm_request.context["fsm_context"] = <<StrategyKey>>
    /\ fsm_request.context["fsm_state"]
          = IF StrategyKey \in DOMAIN fsm_middleware.storage.states
            THEN <<"state1">> ELSE <<>>

\* C21 as stated: a call without a user in the context returns Finish and no
\* error, inserts neither fsm_context nor fsm_state and does not read the
\* storage; a call with a user publishes fsm_context for the key of the
\* strategy, and fsm_state only if the key has a current state.
C21_FSMContextPublished ==
    fsm_response.pc = "returned" =>
        /\ EventUser = <<>> => NoUserPublished
        /\ EventUser # <<>> => UserPublished

\* C21, with the error of the storage: a call without a user is as stated.
\* A call with a user reads the state of the key of the strategy, once; when
\* the read succeeds it returns Finish and publishes fsm_context and
\* fsm_state as stated and the storage; when the read fails it returns the
\* error and inserted nothing.
C21_PublishedUnlessReadFails ==
    fsm_response.pc = "returned" =>
        /\ EventUser = <<>> => NoUserPublished
        /\ EventUser # <<>> =>
              /\ fsm_response.reads = <<StrategyKey>>
              /\ fsm_response.error = fsm_middleware.storage.fails
              /\ ~fsm_response.error =>
                    /\ fsm_response.event_return = "Finish"
                    /\ UserPublished
                    /\ fsm_request.context["fsm_storage"] # <<>>
              /\ fsm_response.error =>
                    /\ fsm_response.event_return = "none"
                    /\ \A k \in FSMKeys : fsm_request.context[k] = <<>>

\* A call of a middleware built with a destiny of its own, for a user
\* without a chat, returned; the strategy keeps the thread, and the storage
\* holds a state for the key.
C21_Witness ==
    /\ fsm_response.pc = "returned"
    /\ fsm_middleware.destiny = "custom"
    /\ EventUser = <<20>>
    /\ EventChat = <<>>
    /\ fsm_middleware.strategy = "UserInThread"
    /\ fsm_request.context["event_message_thread_id"] = <<7>>
    /\ fsm_request.context["fsm_state"] = <<"state1">>
    /\ fsm_request.context["fsm_context"][1].chat_id = 20
    /\ fsm_request.context["fsm_context"][1].destiny = "custom"

(* ----------------- properties of the whole dispatch -------------------- *)
\* C22 as stated: once the execution of a handler signalled anything other
\* than Skip, no handler of any observer of any router is executed for that
\* update.
C22_AtMostOneHandler == trace.after = {}

\* C22, for Finish: once the execution of a handler signalled Finish to
\* trigger, nothing is called any more for that update: that result stays the
\* last entry, and no handler is executed after it.  (After a Cancel other
\* handlers may still be executed.)
C22_NoHandlerAfterFinish ==
    /\ "Finish" \notin trace.after
    /\ "Finish" \in trace.signalled =>
          /\ log # <<>>
          /\ IsResult(Last(log))
          /\ Last(log).out = "Finish"

\* The dispatcher got the response of a call in which the execution of a
\* handler signalled Finish after that of another handler had signalled Cancel.
C22_Witness ==
    /\ stack = <<>>
    /\ ret.router = 1
    /\ ret.result.tag = "Handled"
    /\ trace.signalled = {"Cancel", "Finish"}
    /\ trace.after = {"Cancel"}

\* C24: when a handler or an inner middleware of the update observer signals
\* Cancel, propagate_update_event returns Unhandled with the request it would
\* return had no handler matched, and propagate_event goes on with the
\* observer selected by the update type.
C24_UpdateCancelGoesOn ==
    (/\ stack # <<>>
     /\ log # <<>>
     /\ IsResult(Last(log))
     /\ Last(log).out = "Cancel"
     /\ Last(log).observer = UpdateObserver) =>
        /\ Top.router = Last(log).router
        /\ Top.pc \in {"triggered", "updated"}
        /\ trig.result = Rejected
        /\ Top.pc = "updated" =>
              /\ upd = [result |-> Unhandled, request |-> Top.request]
              /\ UpdateEventResult(upd.result) = None

\* The observer selected by the update type of the root router checks the
\* filters of a handler after the handler of the update observer of the root
\* signalled Cancel.
C24_Witness ==
    /\ Len(stack) = 1
    /\ Top.observer # UpdateObserver
    /\ Top.pc = "check"
    /\ upd.result = Unhandled
    /\ trace.signalled = {"Cancel"}

\* C27: a router whose own observer (the one selected by the update type)
\* yields Rejected calls none of its sub routers and returns Unhandled, and
\* the router that included it goes on with its next sub router, or returns
\* Unhandled if there is none.
C27_RejectedStopsRouter ==
    stack # <<>> =>
        /\ (Top.pc = "return" /\ Top.observer # UpdateObserver /\ trig.result = Rejected
                /\ Last(visited) = Top.router) =>
              /\ Children(Top.router) \cap Visited = {}
              /\ Top.response.result = Unhandled
        /\ (Top.pc = "sub_routers" /\ Last(visited) = Top.router) =>
              trig.result # Rejected
        /\ (ret.router \in Children(Top.router) /\ ret.result = Unhandled
                /\ trig.result = Rejected /\ Last(visited) = ret.router) =>
              LET subs == sub_routers(Top.router)
                  j == CHOOSE i \in 1..Len(subs) : subs[i] = ret.router
              IN IF j < Len(subs)
                 THEN Top.pc = "sub_routers" /\ Top.child = j + 1
                 ELSE Top.pc = "return" /\ Top.response.result = Unhandled

\* A router with sub routers returned Unhandled because a handler of its own
\* observer signalled Cancel, and the router that included it is about to
\* call its next sub router.
C27_Witness ==
    /\ stack # <<>>
    /\ Top.pc = "sub_routers"
    /\ ret.router \in Children(Top.router)
    /\ Children(ret.router) # {}
    /\ Children(ret.router) \cap Visited = {}
    /\ ret.result = Unhandled
    /\ trig.result = Rejected
    /\ IsResult(Last(log))
    /\ Last(log).out = "Cancel"
    /\ Last(log).observer # UpdateObserver

\* An outer middleware returned Cancel, and nothing was called after it.
OuterCancelled ==
    /\ log # <<>>
    /\ Last(log).unit = "outer"
    /\ Last(log).out = "Cancel"

\* C30: propagate_event of a router returns Rejected only when an outer
\* middleware of that router or of a router below it returned Cancel; it does
\* not after the common filters failed or a handler or an inner middleware
\* signalled Cancel.
C30_RejectedOnlyByOuter ==
    /\ (stack # <<>> /\ Top.pc = "return" /\ Top.response.result = Rejected) =>
          /\ OuterCancelled
          /\ Last(log).router \in TreeOf(Top.router)
    /\ ret.result = Rejected =>
          /\ OuterCancelled
          /\ Last(log).router \in TreeOf(ret.router)
    /\ (/\ stack # <<>>
        /\ Top.pc = "return"
        /\ log # <<>>
        /\ \/ Last(log).unit = "common" /\ Last(log).out = "fail"
           \/ IsResult(Last(log)) /\ Last(log).out = "Cancel") =>
          Top.response.result = Unhandled

\* The root returned Rejected to the dispatcher because an outer middleware
\* of the update observer of a router two levels below it returned Cancel.
C30_Witness ==
    /\ stack = <<>>
    /\ ret = [router |-> 1, result |-> Rejected, request |-> ret.request]
    /\ OuterCancelled
    /\ Last(log).observer = UpdateObserver
    /\ Len(Path(Last(log).router)) = 3

\* The filters, inner middlewares and handlers of the observer selected by
\* the update type that were called in the current trigger.
KindStageCalls ==
    {k \in 1..Len(log) : /\ log[k].observer # UpdateObserver
                         /\ log[k].unit \in {"common", "check", "inner", "handler"}}

\* C23 as stated: what an outer middleware of the update observer that
\* returned Finish inserted into the context of its request is in the
\* context the filters and the handler of the observer selected by the
\* update type read.
C23_InsertedIsReadable ==
    trace.committed => \A k \in KindStageCalls : Key(UpdateObserver) \in log[k].keys

\* C28: when the update stage yields Unhandled, the stage of the observer
\* selected by the update type starts with the request passed to
\* propagate_event, whatever request the outer middlewares of the update
\* observer committed; what they inserted into the context of the request
\* passed is still there.
C28_KindStageFromOriginal ==
    (/\ stack # <<>>
     /\ Top.observer # UpdateObserver
     /\ Top.pc = (IF MaxOuter > 0 THEN "outer" ELSE "common")
     /\ Top.i = 1
     /\ log = <<>>) =>
        /\ Top.request = Top.original
        /\ (trace.committed /\ ~trace.replaced) =>
              Key(UpdateObserver) \in heap[Top.request.ctx]

\* The stage of the observer selected by the update type starts after an
\* outer middleware of the update observer committed another request, whose
\* context holds what the middleware inserted while the context of the
\* request passed to propagate_event does not.
C28_Witness ==
    /\ stack # <<>>
    /\ Top.observer # UpdateObserver
    /\ Top.pc = "outer"
    /\ Top.i = 1
    /\ log = <<>>
    /\ trace.replaced
    /\ Key(UpdateObserver) \notin heap[Top.request.ctx]

\* C25: in every Service built, the outer middlewares of each observer of a
\* sub router are those registered on that observer of that sub router and
\* no others; the outer middlewares of the Config are registered, before its
\* own, on the observers of the root only.
C25_OuterNotInherited ==
    \A r \in Routers : \A o \in ObserverNames :
        services[r].built =>
            services[r].observers[o].outer_middlewares
                = IF r = 1
                  THEN config.outer_middlewares[o] \o registered[1][o].outer_middlewares
                  ELSE registered[r][o].outer_middlewares

\* The root and a router two levels below it were built; the Config and
\* every router from the root down to that one hold an outer middleware for
\* the observer of messages.
C25_Witness ==
    \E r \in Routers :
        /\ Len(Path(r)) = 3
        /\ services[r].built
        /\ services[1].built
        /\ config.outer_middlewares["message"] # <<>>
        /\ \A j \in 1..3 : registered[Path(r)[j]]["message"].outer_middlewares # <<>>

\* The order of the calls in a chain of inner middlewares: trigger calls the
\* first one for a handler whose filters passed; each further middleware is
\* called by the `next` of the one registered before it, and the handler by
\* the `next` of the last.
ChainOrder ==
    /\ \A k \in 1..Len(log) :
          /\ (log[k].unit = "inner" /\ log[k].idx = 1) =>
                /\ k > 1
                /\ log[k-1].unit = "check"
                /\ log[k-1].out = "pass"
                /\ log[k-1].idx = log[k].handler
          /\ (log[k].unit = "inner" /\ log[k].idx > 1) =>
                /\ log[k-1].unit = "inner"
                /\ log[k-1].out = "next"
                /\ log[k-1].idx = log[k].idx - 1
                /\ log[k-1].handler = log[k].handler
          /\ (log[k].unit = "handler" /\ middlewares > 0) =>
                /\ k > middlewares
                /\ \A j \in 1..middlewares :
                      /\ log[k-j].unit = "inner"
                      /\ log[k-j].out = "next"
                      /\ log[k-j].idx = middlewares + 1 - j
                      /\ log[k-j].handler = log[k].handler
    /\ (stack # <<>> /\ log # <<>> /\ Last(log).unit = "inner"
                     /\ Last(log).out = "next") =>
          /\ Top.pc = (IF Last(log).idx < middlewares THEN "inner" ELSE "handler")
          /\ Top.i = Last(log).handler

\* trigger interprets the result it got from the first inner middleware: on
\* Skip it goes on with the next handler, on Cancel it returns Rejected, on
\* Finish Handled.
ChainResultInterpreted ==
    (/\ stack # <<>>
     /\ Top.pc \notin {"return", "sub_routers"}
     /\ log # <<>>
     /\ IsResult(Last(log))
     /\ Last(log).observer = Top.observer
     /\ Last(log).router = Top.router) =>
          CASE Last(log).out = "Skip" ->
                  IF Last(log).handler < handlers
                  THEN Top.pc = "check" /\ Top.i = Last(log).handler + 1
                  ELSE Top.pc \in {"triggered", "updated"} /\ trig.result = Unhandled
            [] Last(log).out = "Cancel" ->
                  Top.pc \in {"triggered", "updated"} /\ trig.result = Rejected
            [] Last(log).out = "Finish" ->
                  /\ Top.pc \in {"triggered", "updated"}
                  /\ trig.result = Handled(HandlerOf(Last(log)))
            [] OTHER -> FALSE

\* C26 as stated: the calls of a chain of inner middlewares are made in
\* registration order, the handler last, each by the `next` of the one before
\* it; and when a middleware returns without calling next, its own result is
\* the one that trigger gets and interprets.
C26_InnerChain ==
    /\ ChainOrder
    /\ ChainResultInterpreted
    /\ (/\ stack # <<>>
        /\ Top.pc = "match"
        /\ Last(log).unit = "inner"
        /\ Last(log).out # "next") => Top.res = ResultOf(Last(log))

\* C26, with the result of a middleware that does not call next going to its
\* caller: the calls of the chain are made as stated; the result of the first
\* middleware is the one trigger gets and interprets, and the result of a
\* later middleware that returns without calling next is returned to the
\* middleware whose `next` called it (which may return another result).
C26_ChainReturnsToCaller ==
    /\ ChainOrder
    /\ ChainResultInterpreted
    /\ (/\ stack # <<>>
        /\ Top.pc \in {"after", "match"}
        /\ Last(log).unit = "inner"
        /\ Last(log).out # "next") =>
          /\ Last(log).idx = 1 => (Top.pc = "match" /\ Top.res = ResultOf(Last(log)))
          /\ (Top.pc = "after" /\ Top.m = Last(log).idx - 1)
                => Top.res = ResultOf(Last(log))

\* In a chain of at least two inner middlewares around the first of several
\* handlers, the second middleware returned Finish without calling next and
\* the first, whose `next` had called it, returned Skip: trigger has Skip to
\* interpret.
C26_Witness ==
    /\ middlewares >= 2
    /\ handlers >= 2
    /\ stack # <<>>
    /\ Top.pc = "match"
    /\ Top.i = 1
    /\ Last(log).unit = "inner"
    /\ Last(log).idx = 2
    /\ Last(log).out = "Finish"
    /\ Top.res.out = "Skip"

\* C29: a set_value or set_data call that fails to serialize a value leaves
\* the storage as it was when the call took the guard: no Record is created,
\* and no data map and no states stack is changed, also when set_data had
\* serialized other entries of its map.
C29_FailedWriteChangesNothing ==
    (last.result = "Err" /\ last.call.name \in {"set_value", "set_data"}) =>
        storage = last.before

\* set_data failed on a map with a value that serializes and one that does
\* not, on a key whose Record held a state and a value.
C29_Witness ==
    /\ last.result = "Err"
    /\ last.call.name = "set_data"
    /\ to_string(last.call.data["key1"]).ok
    /\ ~to_string(last.call.data["key2"]).ok
    /\ last.before[last.call.key].present
    /\ last.before[last.call.key].states # <<>>
    /\ last.before[last.call.key].data # EmptyData

====
